---------------------------- MODULE Spec2Model ----------------------------
(***************************************************************************)
(* A model of ShaderMaker's WebGL render engine (class WebGLRenderer), the *)
(* compilation pipeline it drives (compileShader / linkProgram) and the    *)
(* host it runs on: the WebGL device context with its object table, the    *)
(* requestAnimationFrame queue and the context-lost / context-restored     *)
(* events.  Every method of the engine is one action; the GL calls a       *)
(* method issues are recorded, in order, in gpuLog.                        *)
(***************************************************************************)
EXTENDS Integers, Sequences, FiniteSets, TLC

(***************************************************************************)
(* Bounds of the model.                                                    *)
(***************************************************************************)
\* Objects of one kind (vertex array, vertex stage, fragment stage, program)
\* the device's object table has room for.
MaxPerKind == 2
\* Size of the host's table of requestAnimationFrame callback ids.
MaxRaf == 2
\* Last instant of the host clock (performance.now()).
MaxTime == 1
\* Longest tuple passed to setCustomUniform as a value.
MaxTupleLen == 5
\* Lines of the longest info log parsed.
MaxLines == 2
\* Pieces (declarations and other text) in a source given to parseUniforms.
MaxDecls == 2
\* Numbers in a default hint.
MaxValues == 3

(***************************************************************************)
(* Values.                                                                 *)
(***************************************************************************)
\* The null handle (`WebGLProgram | null = null`).
NoHandle == 0

\* `lastFragmentSource: string | null = null`.
NoSource == "<null>"

\* The fixed vertex stage source.
VERTEX_SHADER_SOURCE == "<fullscreen-triangle>"

\* Fragment sources a caller passes to compile: two that compile and link,
\* one the driver rejects at the fragment stage, one that compiles but does
\* not link, and the empty string (rejected: it has no main).
Sources == {"A", "B", "E", "L", ""}

\* The driver's verdict on a fragment source at the compile step.
FragmentCompiles(source) == source \in {"A", "B", "L"}

\* The driver's verdict on a vertex/fragment pair at the link step.
ProgramLinks(source) == source \in {"A", "B"}

\* The uniforms active in the program linked from a fragment source.
ActiveUniforms(source) ==
    CASE source = "A" -> {"u_time", "u_resolution", "u_a"}
      [] source = "B" -> {"u_time", "u_mouse", "u_b"}
      [] OTHER -> {}

\* Names and values of custom uniforms.
UniformNames == {"u_a", "u_b"}
\* `value: number | number[]`: a scalar is told from a tuple as the code
\* tells them (typeof v === 'number' / Array.isArray(v)).
Number(x) == [isArray |-> FALSE, v |-> <<x>>]
Array(s) == [isArray |-> TRUE, v |-> s]
UniformValues == {Number(7)} \cup {Array([i \in 1..n |-> i]) : n \in 0..MaxTupleLen}

\* A resolved uniform location belongs to one program; <<0, "">> is null.
NoLocation == <<NoHandle, "">>

\* JavaScript truthiness of `string | null`: null and "" are falsy.
Truthy(source) == source # NoSource /\ source # ""

\* What the host can make go wrong during one compile call: nothing, an
\* object allocation that returns null, or a rejected vertex stage.
EnvFaults == {"none", "vertexAlloc", "vertex", "fragmentAlloc", "programAlloc"}

(***************************************************************************)
(* The driver's info log and parseInfoLog.  A log is the sequence of its   *)
(* lines (what log.split('\n') gives); a line is a sequence of tokens: a   *)
(* word, a colon, a digit, or a whitespace character.                      *)
(***************************************************************************)
Digits == <<"0", "1", "2", "3", "4", "5", "6", "7", "8", "9">>

IsDigit(tok) == \E i \in 1..Len(Digits) : Digits[i] = tok

DigitValue(tok) == (CHOOSE i \in 1..Len(Digits) : Digits[i] = tok) - 1

\* \s
IsSpace(tok) == tok \in {" ", "\t"}

\* (?:ERROR|WARNING) under the i flag.
IsSeverity(tok) == tok \in {"ERROR", "error", "Error", "WARNING", "warning", "Warning"}

\* String.prototype.trim
RECURSIVE TrimLeft(_)
TrimLeft(s) == IF s # <<>> /\ IsSpace(Head(s)) THEN TrimLeft(Tail(s)) ELSE s

RECURSIVE TrimRight(_)
TrimRight(s) ==
    IF s # <<>> /\ IsSpace(s[Len(s)]) THEN TrimRight(SubSeq(s, 1, Len(s) - 1)) ELSE s

Trim(s) == TrimRight(TrimLeft(s))

\* parseInt(digits, 10)
RECURSIVE parseInt(_)
parseInt(digits) ==
    IF digits = <<>> THEN 0
    ELSE 10 * parseInt(SubSeq(digits, 1, Len(digits) - 1)) + DigitValue(digits[Len(digits)])

\* The position after the run of whitespace / of digits that starts at i.
RECURSIVE SkipSpaces(_, _)
SkipSpaces(s, i) == IF i <= Len(s) /\ IsSpace(s[i]) THEN SkipSpaces(s, i + 1) ELSE i

RECURSIVE SkipDigits(_, _)
SkipDigits(s, i) == IF i <= Len(s) /\ IsDigit(s[i]) THEN SkipDigits(s, i + 1) ELSE i

NoMatch == [matched |-> FALSE, line |-> 0, message |-> <<>>]

\* :(\d+):\s*(.+) from the colon at b; c is where the second number ends.
MatchFrom(trimmed, b, c) ==
    IF c > b + 1 /\ c < Len(trimmed) /\ trimmed[c] = ":"
    THEN [matched |-> TRUE, line |-> parseInt(SubSeq(trimmed, b + 1, c - 1)),
          message |-> Trim(SubSeq(trimmed, c + 1, Len(trimmed)))]
    ELSE NoMatch

\* \d+ from a to b, and the rest of the pattern.
MatchNumbers(trimmed, a, b) ==
    IF b > a /\ b <= Len(trimmed) /\ trimmed[b] = ":"
    THEN MatchFrom(trimmed, b, SkipDigits(trimmed, b + 1))
    ELSE NoMatch

\* trimmed.match(/^(?:ERROR|WARNING):\s*\d+:(\d+):\s*(.+)/i)
Match(trimmed) ==
    IF Len(trimmed) >= 2 /\ IsSeverity(trimmed[1]) /\ trimmed[2] = ":"
    THEN MatchNumbers(trimmed, SkipSpaces(trimmed, 3),
                      SkipDigits(trimmed, SkipSpaces(trimmed, 3)))
    ELSE NoMatch

\* ParsedLine that keeps the whole line as the message of a matched line.
ParsedLine_WholeLine(trimmed, match) ==
    [line |-> IF match.matched THEN match.line ELSE 0, message |-> trimmed]

\* The entry pushed for one non-blank line.
ParsedLine(trimmed, match) ==
    IF match.matched
    THEN [line |-> match.line, message |-> match.message]
    ELSE [line |-> 0, message |-> trimmed]

RECURSIVE ParseLines(_)
ParseLines(lines) ==
    IF lines = <<>> THEN <<>>
    ELSE IF Trim(Head(lines)) = <<>> THEN ParseLines(Tail(lines))
         ELSE <<ParsedLine(Trim(Head(lines)), Match(Trim(Head(lines))))>>
              \o ParseLines(Tail(lines))

parseInfoLog(log) ==
    IF \A i \in 1..Len(log) : Trim(log[i]) = <<>> THEN <<>> ELSE ParseLines(log)

\* The log the driver writes when it rejects a source.
DriverLog(source) ==
    CASE source = "E" ->
           << <<"ERROR", ":", " ", "0", ":", "2", ":", " ", "'float'", " ", ":", " ",
                "precision qualifier required">> >>
      [] source = "L" -> << <<"Fragment shader is missing main">>, <<>> >>
      [] source = "" -> << <<"Missing main()">> >>
      [] source = "W" -> << <<" ">>, <<>> >>
      [] OTHER -> << <<"ERROR", ":", " ", "0", ":", "1", ":", " ", "vertex stage rejected">> >>

\* The diagnostics parsed from the driver's log for a rejected source.
InfoLogErrors(source) == parseInfoLog(DriverLog(source))

(***************************************************************************)
(* Uniform discovery (parseUniforms).  A source is a sequence of tokens: a *)
(* word or part of a word, a digit, a punctuation mark, "//", or a         *)
(* whitespace character.  A name is the run of word tokens it is made of.  *)
(* Numbers are held in hundredths; a scalar value is a tuple of one.       *)
(***************************************************************************)
BUILTIN_UNIFORMS == {<<"u_resolution">>, <<"u_time">>, <<"u_mouse">>}

SUPPORTED_TYPES == {"float", "int", "vec2", "vec3", "vec4"}

\* \s
IsWhite(tok) == tok \in {" ", "\t", "\n"}

Punctuation == {";", "//", ":", ",", "+", "-", ".", "(", ")"}

\* \w
IsWordTok(tok) == ~IsWhite(tok) /\ tok \notin Punctuation

RECURSIVE SkipWhite(_, _)
SkipWhite(s, i) == IF i <= Len(s) /\ IsWhite(s[i]) THEN SkipWhite(s, i + 1) ELSE i

RECURSIVE SkipWord(_, _)
SkipWord(s, i) == IF i <= Len(s) /\ IsWordTok(s[i]) THEN SkipWord(s, i + 1) ELSE i

\* [^\n]* from i: the position of the line's end.
RECURSIVE LineEnd(_, _)
LineEnd(s, i) == IF i <= Len(s) /\ s[i] # "\n" THEN LineEnd(s, i + 1) ELSE i

\* [+-]?\d+(?:\.\d+)? at p: where the sign ends, and where the number ends
\* (p itself when there is no number at p).
NumSign(s, p) == IF p <= Len(s) /\ s[p] \in {"+", "-"} THEN p + 1 ELSE p

NumFraction(s, b) ==
    IF b + 1 <= Len(s) /\ s[b] = "." /\ IsDigit(s[b + 1])
    THEN SkipDigits(s, b + 1) ELSE b

NumEnd(s, p) ==
    IF SkipDigits(s, NumSign(s, p)) = NumSign(s, p) THEN p
    ELSE NumFraction(s, SkipDigits(s, NumSign(s, p)))

\* The first two fractional digits, in hundredths.
Hundredths(digits) ==
    IF digits = <<>> THEN 0
    ELSE IF Len(digits) = 1 THEN 10 * DigitValue(digits[1])
    ELSE 10 * DigitValue(digits[1]) + DigitValue(digits[2])

\* parseFloat of the number that runs from p to q - 1.
parseFloat(s, p, q) ==
    LET a == NumSign(s, p)
        b == SkipDigits(s, a)
        magnitude == 100 * parseInt(SubSeq(s, a, b - 1)) + Hundredths(SubSeq(s, b + 1, q - 1))
    IN  IF s[p] = "-" THEN 0 - magnitude ELSE magnitude

\* Math.round
MathRound(x) == ((x + 50) \div 100) * 100

\* name.toLowerCase().includes('color')
LowerCase(tok) == IF tok \in {"Color", "COLOR"} THEN "color" ELSE tok

\* IsColor without the lower-casing.
IsColor_CaseSensitive(name) == \E i \in 1..Len(name) : name[i] = "color"

IsColor(name) == \E i \in 1..Len(name) : LowerCase(name[i]) = "color"

getDefaults(type, name) ==
    CASE type = "float" ->
           [name |-> name, type |-> type, value |-> <<50>>, min |-> 0, max |-> 100,
            step |-> 1]
      [] type = "int" ->
           [name |-> name, type |-> type, value |-> <<100>>, min |-> 0, max |-> 1000,
            step |-> 100]
      [] type = "vec2" ->
           [name |-> name, type |-> type, value |-> <<0, 0>>, min |-> 0 - 100,
            max |-> 100, step |-> 1]
      [] type = "vec3" ->
           [name |-> name, type |-> type,
            value |-> IF IsColor(name) THEN <<100, 100, 100>> ELSE <<0, 0, 0>>,
            min |-> IF IsColor(name) THEN 0 ELSE 0 - 100, max |-> 100, step |-> 1]
      [] type = "vec4" ->
           [name |-> name, type |-> type, value |-> <<0, 0, 0, 100>>, min |-> 0,
            max |-> 100, step |-> 1]

\* comment.replace(/^\s*\/\/\s*/, '').trim()
StripComment(comment) ==
    IF SkipWhite(comment, 1) <= Len(comment) /\ comment[SkipWhite(comment, 1)] = "//"
    THEN Trim(SubSeq(comment, SkipWhite(comment, 1) + 1, Len(comment)))
    ELSE Trim(comment)

NoHint == [matched |-> FALSE, values |-> <<>>]

\* s[i], s[i + 1] are the keyword and its colon.
Keyword(s, i, word) == i + 1 <= Len(s) /\ s[i] = word /\ s[i + 1] = ":"

\* /range:\s*(NUM)\s*,\s*(NUM)/ tried at i: p is where the first number
\* starts, c where the comma should be.
RangeSecond(s, p, p2) ==
    IF NumEnd(s, p2) > p2
    THEN [matched |-> TRUE,
          values |-> <<parseFloat(s, p, NumEnd(s, p)), parseFloat(s, p2, NumEnd(s, p2))>>]
    ELSE NoHint

RangeFirst(s, p, c) ==
    IF NumEnd(s, p) > p /\ c <= Len(s) /\ s[c] = ","
    THEN RangeSecond(s, p, SkipWhite(s, c + 1))
    ELSE NoHint

RangeAt(s, i) ==
    IF Keyword(s, i, "range")
    THEN RangeFirst(s, SkipWhite(s, i + 2), SkipWhite(s, NumEnd(s, SkipWhite(s, i + 2))))
    ELSE NoHint

\* The numbers of ((?:NUM(?:\s*,\s*)?)+) from p, as split(',') and
\* parseFloat give them: one per comma-separated piece.
RECURSIVE DefaultValues(_, _, _)
DefaultValues(s, p, fresh) ==
    IF NumEnd(s, p) = p THEN <<>>
    ELSE (IF fresh THEN <<parseFloat(s, p, NumEnd(s, p))>> ELSE <<>>)
         \o (IF SkipWhite(s, NumEnd(s, p)) <= Len(s) /\ s[SkipWhite(s, NumEnd(s, p))] = ","
             THEN DefaultValues(s, SkipWhite(s, SkipWhite(s, NumEnd(s, p)) + 1), TRUE)
             ELSE DefaultValues(s, NumEnd(s, p), FALSE))

\* /default:\s*((?:NUM(?:\s*,\s*)?)+)/ tried at i.
DefaultAt(s, i) ==
    IF Keyword(s, i, "default") /\ NumEnd(s, SkipWhite(s, i + 2)) > SkipWhite(s, i + 2)
    THEN [matched |-> TRUE, values |-> DefaultValues(s, SkipWhite(s, i + 2), TRUE)]
    ELSE NoHint

\* /step:\s*(NUM)/ tried at i.
StepAt(s, i) ==
    IF Keyword(s, i, "step") /\ NumEnd(s, SkipWhite(s, i + 2)) > SkipWhite(s, i + 2)
    THEN [matched |-> TRUE,
          values |-> <<parseFloat(s, SkipWhite(s, i + 2), NumEnd(s, SkipWhite(s, i + 2)))>>]
    ELSE NoHint

\* stripped.match(...): the leftmost match from i on.
RECURSIVE FindRange(_, _)
FindRange(s, i) ==
    IF i > Len(s) THEN NoHint
    ELSE IF RangeAt(s, i).matched THEN RangeAt(s, i) ELSE FindRange(s, i + 1)

RECURSIVE FindDefault(_, _)
FindDefault(s, i) ==
    IF i > Len(s) THEN NoHint
    ELSE IF DefaultAt(s, i).matched THEN DefaultAt(s, i) ELSE FindDefault(s, i + 1)

\* FindStep that looks for the hint at position i only.
FindStep_Anchored(s, i) == IF i > Len(s) THEN NoHint ELSE StepAt(s, i)

RECURSIVE FindStep(_, _)
FindStep(s, i) ==
    IF i > Len(s) THEN NoHint
    ELSE IF StepAt(s, i).matched THEN StepAt(s, i) ELSE FindStep(s, i + 1)

WithRange(def, m) ==
    IF m.matched THEN [def EXCEPT !.min = m.values[1], !.max = m.values[2]] ELSE def

\* WithDefault that takes the supplied values as the whole value.
WithDefault_Whole(def, type, m) ==
    IF m.matched THEN [def EXCEPT !.value = m.values] ELSE def

WithDefault(def, type, m) ==
    IF ~m.matched THEN def
    ELSE IF type \in {"float", "int"}
         THEN [def EXCEPT !.value =
                  <<IF type = "int" THEN MathRound(m.values[1]) ELSE m.values[1]>>]
         ELSE [def EXCEPT !.value =
                  [k \in 1..Len(def.value) |->
                      IF k <= Len(m.values) THEN m.values[k] ELSE def.value[k]]]

WithStep(def, m) == IF m.matched THEN [def EXCEPT !.step = m.values[1]] ELSE def

Hinted(stripped, type, def) ==
    WithStep(WithDefault(WithRange(def, FindRange(stripped, 1)), type,
                         FindDefault(stripped, 1)),
             FindStep(stripped, 1))

parseComment(comment, type, def) ==
    IF StripComment(comment) = <<>> THEN def ELSE Hinted(StripComment(comment), type, def)

NoDecl == [matched |-> FALSE, type |-> "", name |-> <<>>, comment |-> <<>>, end |-> 0]

\* /uniform\s+(float|int|vec2|vec3|vec4)\s+(\w+)\s*;([^\n]*)/ tried at i:
\* a is where the type stands, b where the name starts, d where the
\* semicolon should be.
DeclEnd(s, a, b, d) ==
    IF SkipWord(s, b) > b /\ d <= Len(s) /\ s[d] = ";"
    THEN [matched |-> TRUE, type |-> s[a], name |-> SubSeq(s, b, SkipWord(s, b) - 1),
          comment |-> SubSeq(s, d + 1, LineEnd(s, d + 1) - 1), end |-> LineEnd(s, d + 1)]
    ELSE NoDecl

DeclName(s, a, b) ==
    IF b > a + 1 THEN DeclEnd(s, a, b, SkipWhite(s, SkipWord(s, b))) ELSE NoDecl

DeclType(s, i, a) ==
    IF a > i + 1 /\ a <= Len(s) /\ s[a] \in SUPPORTED_TYPES
    THEN DeclName(s, a, SkipWhite(s, a + 1)) ELSE NoDecl

DeclAt(s, i) == IF s[i] = "uniform" THEN DeclType(s, i, SkipWhite(s, i + 1)) ELSE NoDecl

\* The descriptors one match pushes.
Discovered(m) ==
    IF m.name \in BUILTIN_UNIFORMS \/ m.type \notin SUPPORTED_TYPES THEN <<>>
    ELSE <<parseComment(m.comment, m.type, getDefaults(m.type, m.name))>>

\* while ((match = uniformRegex.exec(code)) !== null), from lastIndex i.
RECURSIVE ScanFrom(_, _)
ScanFrom(code, i) ==
    IF i > Len(code) THEN <<>>
    ELSE IF DeclAt(code, i).matched
         THEN Discovered(DeclAt(code, i)) \o ScanFrom(code, DeclAt(code, i).end)
         ELSE ScanFrom(code, i + 1)

parseUniforms(code) == ScanFrom(code, 1)

VARIABLES
    \* ---- fields of WebGLRenderer ----
    gl,                 \* TRUE when this.gl is not null
    canvas,             \* TRUE when this.canvas is not null
    program,            \* handle or NoHandle
    vertexShader,
    fragmentShader,
    vao,
    rafId,              \* id of the scheduled frame callback, or 0 for null
    startTime,
    mousePos,
    customUniforms,     \* name -> [location, value], a partial map
    contextLost,
    uTime, uResolution, uMouse,
    lastFragmentSource,
    listeners,          \* TRUE while the two canvas listeners are registered
    \* ---- the host ----
    canvasSize,         \* <<canvas.width, canvas.height>>
    handles,            \* the device's object table
    ctxLost,            \* the context's own lost flag
    lostEventPending,   \* a webglcontextlost event is queued
    canRestore,         \* the lost event's default was prevented
    rafQueue,           \* ids of frame callbacks the host will run
    now,                \* performance.now() / 1000
    \* ---- history ----
    lifecycle,          \* "new" | "ready" | "failed" | "destroyed"
    lastOp,             \* the operation that ran last, and what it returned
    gpuLog,             \* the GL calls lastOp issued, in order
    lastGoodSource,     \* source of the most recent compile that succeeded
    everLost,           \* the device context was lost at some point
    relTwice,           \* some handle was passed to a delete call twice
    relStale,           \* a handle invalidated by a loss was passed to delete
    atLoss,             \* what the engine held when the loss it is in was signalled
    \* ---- the callers of the engine ----
    capture,            \* captureThumbnail: where the call is, and its locals
    \* ---- the MCP bridge ----
    requests,           \* Map: request id -> ShaderRequest
    sseListeners,       \* Map: request id -> the streams waiting for it
    streams,            \* the /api/stream connections, in the order opened
    accepted,           \* history: request id -> the submit that completed it
    \* ---- the web app: shader store, canvas component, uniform panel ----
    shaders,            \* the store's shaders: id -> code
    activeShaderId,     \* the store's activeShaderId, or NoShader for null
    canvasPc,           \* where the canvas component's async init() is
    rendererRef,        \* TRUE when rendererRef.current is set
    debounceRef,        \* id of the last timer the canvas set, or 0
    timers,             \* host: the timers that are pending, id -> the code captured
    panelValues,        \* the uniform panel's `values`: name -> value
    prevUniformsRef,    \* the uniform panel's key of the uniforms it initialised
    dialog,             \* the generate dialog: its state, refs and generations
    store               \* the shader store as it holds it: a list, and the active id

engineVars == <<gl, canvas, program, vertexShader, fragmentShader, vao, rafId,
                startTime, mousePos, customUniforms, contextLost, uTime,
                uResolution, uMouse, lastFragmentSource, listeners>>
hostVars == <<canvasSize, handles, ctxLost, lostEventPending, canRestore,
              rafQueue, now>>
historyVars == <<lifecycle, lastOp, gpuLog, lastGoodSource, everLost, relTwice,
                 relStale, atLoss>>
bridgeVars == <<requests, sseListeners, streams, accepted>>
appVars == <<shaders, activeShaderId, canvasPc, rendererRef, debounceRef, timers,
             panelValues, prevUniformsRef>>
callerVars == <<capture, bridgeVars, appVars, dialog, store>>
vars == <<engineVars, hostVars, historyVars, callerVars>>

(***************************************************************************)
(* The device: an object table and the GL calls the code issues on it.    *)
(* A handle is free, live, released (a delete call reached it) or invalid  *)
(* (its context was lost).  g is the device as one method sees it while it *)
(* runs: the table, the calls issued so far, and the two release flags.    *)
(***************************************************************************)
Kinds == <<"vao", "vertex", "fragment", "program">>

Handles == 1..(Len(Kinds) * MaxPerKind)

\* The handles of one kind: an object's identity is all the code sees of it.
HandlesOf(kind) ==
    LET k == CHOOSE i \in 1..Len(Kinds) : Kinds[i] = kind
    IN  {(k - 1) * MaxPerKind + i : i \in 1..MaxPerKind}

FreeHandle == [kind |-> "none", state |-> "free", status |-> "none", src |-> NoSource]

G0 == [hs |-> handles, lost |-> ctxLost, log |-> <<>>,
       twice |-> relTwice, stale |-> relStale]

\* One GL call: its name, the handle it is given, a further argument and the
\* values it passes.
CallV(g, name, h, arg, val) == [g EXCEPT !.log = Append(@, <<name, h, arg, val>>)]
Call(g, name, h, arg) == CallV(g, name, h, arg, <<>>)

FreeIds(hs, kind) == {h \in HandlesOf(kind) : hs[h].state = "free"}

\* gl.createShader / gl.createProgram / gl.createVertexArray: null on a lost
\* context or when the host cannot allocate, else a new object.
NewObject(g, kind, id) ==
    [g |-> [g EXCEPT !.hs[id] = [kind |-> kind, state |-> "live",
                                 status |-> "created", src |-> NoSource]],
     id |-> id]

LowestOf(ids) == CHOOSE h \in ids : \A k \in ids : h <= k

CreateObject(g, call, kind, allocFails) ==
    IF g.lost \/ allocFails \/ FreeIds(g.hs, kind) = {}
    THEN [g |-> Call(g, call, NoHandle, kind), id |-> NoHandle]
    ELSE NewObject(Call(g, call, NoHandle, kind), kind, LowestOf(FreeIds(g.hs, kind)))

\* gl.deleteShader / gl.deleteProgram / gl.deleteVertexArray.  Deleting null
\* does nothing; a handle is released by the first delete call that reaches it.
Released(g, h) ==
    IF h = NoHandle THEN g
    ELSE CASE g.hs[h].state = "live" -> [g EXCEPT !.hs[h].state = "released"]
           [] g.hs[h].state = "released" -> [g EXCEPT !.twice = TRUE]
           [] g.hs[h].state = "invalid" -> [g EXCEPT !.stale = TRUE]
           [] OTHER -> g

DeleteObject(g, call, h) == Released(Call(g, call, h, ""), h)

\* gl.getUniformLocation(program, name): null on a lost context, for a
\* program that is not valid, and for a name the program does not use.
LocationOf(g, prog, name) ==
    IF g.lost \/ prog = NoHandle THEN NoLocation
    ELSE IF g.hs[prog].state # "live" \/ name \notin ActiveUniforms(g.hs[prog].src)
         THEN NoLocation
         ELSE <<prog, name>>

\* Objects no delete call can reach any more are forgotten by the host: a
\* released or invalidated handle that no field of the engine refers to.
Collect(hs, refs) ==
    [h \in Handles |->
        IF hs[h].state \in {"released", "invalid"} /\ h \notin refs
        THEN FreeHandle ELSE hs[h]]

\* The loss of the device context invalidates every object of the table.
Invalidate(hs) ==
    [h \in Handles |->
        IF hs[h].state = "live" THEN [hs[h] EXCEPT !.state = "invalid"] ELSE hs[h]]

\* WEBGL_lose_context.loseContext().
LoseContext(g) ==
    [Call(g, "loseContext", NoHandle, "") EXCEPT !.lost = TRUE, !.hs = Invalidate(g.hs)]

(***************************************************************************)
(* The compilation pipeline (shader-compiler.ts).                          *)
(***************************************************************************)
\* A diagnostic the code writes itself; a message is a sequence of tokens.
\* AllocError that reports nothing.
AllocError_Unreported(what) == <<>>

AllocError(what) == <<[line |-> 0, message |-> <<what>>]>>

\* compileShader after gl.createShader returned c.id.
ShaderCreated(c, source, compiles) ==
    IF c.id = NoHandle
    THEN [g |-> c.g, success |-> FALSE, shader |-> NoHandle,
          errors |-> AllocError("Failed to create shader object")]
    ELSE LET g1 == Call(c.g, "shaderSource", c.id, source)
             g2 == Call([g1 EXCEPT !.hs[c.id].src = source], "compileShader", c.id, "")
             g3 == Call(g2, "getShaderParameter", c.id, "COMPILE_STATUS")
         IN  IF ~compiles
             THEN [g |-> DeleteObject(CallV([g3 EXCEPT !.hs[c.id].status = "failed"],
                                            "getShaderInfoLog", c.id, "",
                                            DriverLog(source)),
                                      "deleteShader", c.id),
                   success |-> FALSE, shader |-> NoHandle,
                   errors |-> InfoLogErrors(source)]
             ELSE [g |-> [g3 EXCEPT !.hs[c.id].status = "compiled"],
                   success |-> TRUE, shader |-> c.id, errors |-> <<>>]

compileShader(g, source, type, allocFails, compiles) ==
    ShaderCreated(CreateObject(g, "createShader", type, allocFails), source, compiles)

\* ProgramCreated without the LINK_STATUS test.
ProgramCreated_Unchecked(c, source) ==
    IF c.id = NoHandle
    THEN [g |-> c.g, success |-> FALSE, program |-> NoHandle,
          errors |-> AllocError("Failed to create program object")]
    ELSE [g |-> Call([c.g EXCEPT !.hs[c.id].src = source,
                                 !.hs[c.id].status =
                                     IF ProgramLinks(source) THEN "linked" ELSE "failed"],
                     "linkProgram", c.id, ""),
          success |-> TRUE, program |-> c.id, errors |-> <<>>]

\* linkProgram after gl.createProgram returned c.id; source is the fragment
\* stage's.
ProgramCreated(c, source) ==
    IF c.id = NoHandle
    THEN [g |-> c.g, success |-> FALSE, program |-> NoHandle,
          errors |-> AllocError("Failed to create program object")]
    ELSE LET g1 == Call(Call(c.g, "attachShader", c.id, "vertex"),
                        "attachShader", c.id, "fragment")
             g2 == Call([g1 EXCEPT !.hs[c.id].src = source], "linkProgram", c.id, "")
             g3 == Call(g2, "getProgramParameter", c.id, "LINK_STATUS")
         IN  IF ~ProgramLinks(source)
             THEN [g |-> DeleteObject(CallV([g3 EXCEPT !.hs[c.id].status = "failed"],
                                            "getProgramInfoLog", c.id, "",
                                            DriverLog(source)),
                                      "deleteProgram", c.id),
                   success |-> FALSE, program |-> NoHandle,
                   errors |-> InfoLogErrors(source)]
             ELSE [g |-> [g3 EXCEPT !.hs[c.id].status = "linked"],
                   success |-> TRUE, program |-> c.id, errors |-> <<>>]

linkProgram(g, vs, fs, allocFails) ==
    ProgramCreated(CreateObject(g, "createProgram", "program", allocFails), g.hs[fs].src)

(***************************************************************************)
(* The engine (class WebGLRenderer).  e is the part of the engine one      *)
(* compile call works on: the current program, its stages, the cached      *)
(* locations, and the device g.                                            *)
(***************************************************************************)
Cur == [program |-> program, vertexShader |-> vertexShader,
        fragmentShader |-> fragmentShader, uTime |-> uTime,
        uResolution |-> uResolution, uMouse |-> uMouse,
        customUniforms |-> customUniforms, g |-> G0]

Op(name, arg, success, errors) ==
    [op |-> name, arg |-> arg, success |-> success, errors |-> errors]

\* One release call of deleteProgram, made when the field is not null.
DeleteIfSet(g, call, h) == IF h # NoHandle THEN DeleteObject(g, call, h) ELSE g

\* private deleteProgram(): called with this.gl set.
deleteProgram(e) ==
    [e EXCEPT !.program = NoHandle, !.vertexShader = NoHandle,
              !.fragmentShader = NoHandle, !.uTime = NoLocation,
              !.uResolution = NoLocation, !.uMouse = NoLocation,
              !.g = DeleteIfSet(DeleteIfSet(DeleteIfSet(e.g, "deleteProgram", e.program),
                                            "deleteShader", e.vertexShader),
                                "deleteShader", e.fragmentShader)]

\* OnFragmentFailure without its cleanup: the vertex stage is left behind.
OnFragmentFailure_Leaks(e, vert, frag) == [e EXCEPT !.g = frag.g]

\* compile, fragment stage rejected: the vertex stage just created is released.
OnFragmentFailure(e, vert, frag) ==
    [e EXCEPT !.g = DeleteIfSet(frag.g, "deleteShader", vert.shader)]

\* OnLinkFailure with the previous program disposed of before the link result
\* is looked at.
OnLinkFailure_DisposesCurrent(e, vert, frag, link) ==
    deleteProgram([e EXCEPT !.g = DeleteObject(DeleteObject(link.g, "deleteShader",
                                                            vert.shader),
                                               "deleteShader", frag.shader)])

\* compile, link step failed: both stages just created are released.
OnLinkFailure(e, vert, frag, link) ==
    [e EXCEPT !.g = DeleteObject(DeleteObject(link.g, "deleteShader", vert.shader),
                                 "deleteShader", frag.shader)]

\* compile, the new program p installed in e1 (the engine deleteProgram
\* left): every location is resolved against p.
\* Resolved that installs the program and resolves no location against it.
Resolved_Unbound(e1, vs, fs, p) ==
    [e1 EXCEPT !.vertexShader = vs, !.fragmentShader = fs, !.program = p]

\* compile, lines 202-214: the new objects are installed and every location
\* is resolved against the new program.
Resolved(e1, vs, fs, p) ==
    [e1 EXCEPT !.vertexShader = vs, !.fragmentShader = fs, !.program = p,
               !.uTime = LocationOf(e1.g, p, "u_time"),
               !.uResolution = LocationOf(e1.g, p, "u_resolution"),
               !.uMouse = LocationOf(e1.g, p, "u_mouse"),
               !.customUniforms =
                   IF DOMAIN e1.customUniforms = {} THEN e1.customUniforms
                   ELSE [n \in DOMAIN e1.customUniforms |->
                           [location |-> LocationOf(e1.g, p, n),
                            value |-> e1.customUniforms[n].value]],
               !.g = Call(Call(Call(e1.g, "getUniformLocation", p, "u_time"),
                               "getUniformLocation", p, "u_resolution"),
                          "getUniformLocation", p, "u_mouse")]

\* compile, all three steps succeeded: the previous program is disposed of,
\* the new one installed, and every location resolved against it.
OnLinked(e, vert, frag, link) ==
    Resolved(deleteProgram([e EXCEPT !.g = link.g]), vert.shader, frag.shader,
             link.program)

\* RememberedSource with the assignment made only once the source is known to
\* build.
RememberedSource_OnSuccess(fragmentSource) ==
    IF FragmentCompiles(fragmentSource) /\ ProgramLinks(fragmentSource)
    THEN fragmentSource ELSE lastFragmentSource

\* The source compile remembers for a later context restore.
RememberedSource(fragmentSource) == fragmentSource

\* compile once the link step has returned.
AfterLink(e0, vert, frag, link) ==
    IF ~link.success
    THEN [e |-> OnLinkFailure(e0, vert, frag, link), success |-> FALSE,
          errors |-> link.errors]
    ELSE [e |-> OnLinked(e0, vert, frag, link), success |-> TRUE, errors |-> <<>>]

\* AfterFragment that returns the vertex stage's diagnostics when the fragment
\* stage fails.
AfterFragment_VertexErrors(e0, fault, vert, frag) ==
    IF ~frag.success
    THEN [e |-> OnFragmentFailure(e0, vert, frag), success |-> FALSE,
          errors |-> vert.errors]
    ELSE AfterLink(e0, vert, frag,
                   linkProgram(frag.g, vert.shader, frag.shader, fault = "programAlloc"))

\* compile once the fragment stage has returned.
AfterFragment(e0, fault, vert, frag) ==
    IF ~frag.success
    THEN [e |-> OnFragmentFailure(e0, vert, frag), success |-> FALSE,
          errors |-> frag.errors]
    ELSE AfterLink(e0, vert, frag,
                   linkProgram(frag.g, vert.shader, frag.shader, fault = "programAlloc"))

\* compile once the vertex stage has returned.
AfterVertex(e0, fragmentSource, fault, vert) ==
    IF ~vert.success
    THEN [e |-> [e0 EXCEPT !.g = vert.g], success |-> FALSE, errors |-> vert.errors]
    ELSE AfterFragment(e0, fault, vert,
                       compileShader(vert.g, fragmentSource, "fragment",
                                     fault = "fragmentAlloc",
                                     FragmentCompiles(fragmentSource)))

\* compile(fragmentSource) with this.gl set: the engine it leaves and the
\* CompileResult it returns.  fault is what the host makes go wrong.
CompileRun(e0, fragmentSource, fault) ==
    AfterVertex(e0, fragmentSource, fault,
                compileShader(e0.g, VERTEX_SHADER_SOURCE, "vertex",
                              fault = "vertexAlloc", fault # "vertex"))

NotAtLoss == [signalled |-> FALSE, source |-> NoSource, running |-> FALSE]

\* What the engine holds when the loss is signalled to it.
Held ==
    [signalled |-> TRUE,
     source |-> IF program = NoHandle THEN NoSource ELSE handles[program].src,
     running |-> rafId # 0]

\* atLoss is history of the loss being handled: it is kept while the engine is
\* Lost and its owner calls neither compile nor startLoop, and for the state
\* the restore handler leaves, and dropped after that.
KeptAtLoss(op) ==
    IF contextLost /\ op.op \notin {"compile", "startLoop"} THEN atLoss ELSE NotAtLoss

\* The assignments every method ends with: the device as the method left it
\* (unreachable objects forgotten) and the record of the call.
Finish(g, op, refs) ==
    /\ handles' = Collect(g.hs, refs)
    /\ gpuLog' = g.log
    /\ relTwice' = g.twice
    /\ relStale' = g.stale
    /\ ctxLost' = g.lost
    /\ lastOp' = op
    /\ atLoss' = IF op.op = "contextLost" /\ listeners THEN Held
                 ELSE IF op.op = "contextRestored" THEN atLoss
                 ELSE KeptAtLoss(op)

\* The handles the fields of the engine refer to.
Refs(e, v) == {e.program, e.vertexShader, e.fragmentShader, v}
CurRefs == Refs(Cur, vao)

Install(e) ==
    /\ program' = e.program
    /\ vertexShader' = e.vertexShader
    /\ fragmentShader' = e.fragmentShader
    /\ uTime' = e.uTime
    /\ uResolution' = e.uResolution
    /\ uMouse' = e.uMouse
    /\ customUniforms' = e.customUniforms

(***************************************************************************)
(* The frame: render(time, resolution, mouse).                             *)
(***************************************************************************)
\* The order render visits the custom uniforms in; the pushes commute.
UniformOrder == <<"u_a", "u_b">>

\* PushCustom with the scalar case left out.
PushCustom_SkipsScalars(g, name) ==
    IF name \notin DOMAIN customUniforms THEN g
    ELSE IF customUniforms[name].location = NoLocation
            \/ ~customUniforms[name].value.isArray
            \/ Len(customUniforms[name].value.v) # 2
         THEN g
         ELSE CallV(g, "uniform2f", customUniforms[name].location[1], name,
                    customUniforms[name].value.v)

\* One turn of render's loop over the custom uniforms.
PushCustom(g, name) ==
    IF name \notin DOMAIN customUniforms THEN g
    ELSE LET entry == customUniforms[name]
             n == Len(entry.value.v)
         IN  IF entry.location = NoLocation THEN g
             ELSE IF ~entry.value.isArray
                  THEN CallV(g, "uniform1f", entry.location[1], name, entry.value.v)
                  ELSE CASE n = 2 -> CallV(g, "uniform2f", entry.location[1], name, entry.value.v)
                         [] n = 3 -> CallV(g, "uniform3f", entry.location[1], name, entry.value.v)
                         [] n = 4 -> CallV(g, "uniform4f", entry.location[1], name, entry.value.v)
                         [] OTHER -> g

RECURSIVE PushCustoms(_, _)
PushCustoms(g, names) ==
    IF names = <<>> THEN g
    ELSE PushCustoms(PushCustom(g, Head(names)), Tail(names))

\* render's early return, taken before any GL call.
RenderSkips_IgnoresLost == ~gl \/ program = NoHandle

RenderSkips == ~gl \/ program = NoHandle \/ contextLost

render(g, time, resolution, mouse) ==
    IF RenderSkips THEN g
    ELSE LET g1 == CallV(g, "viewport", NoHandle, "", resolution)
             g2 == Call(Call(g1, "clearColor", NoHandle, ""), "clear", NoHandle, "")
             g3 == Call(g2, "useProgram", program, "")
             g4 == IF uTime # NoLocation
                   THEN CallV(g3, "uniform1f", uTime[1], "u_time", <<time>>) ELSE g3
             g5 == IF uResolution # NoLocation
                   THEN CallV(g4, "uniform2f", uResolution[1], "u_resolution", resolution)
                   ELSE g4
             g6 == IF uMouse # NoLocation
                   THEN CallV(g5, "uniform2f", uMouse[1], "u_mouse", mouse) ELSE g5
             g7 == PushCustoms(g6, UniformOrder)
             g8 == Call(g7, "bindVertexArray", vao, "")
             g9 == CallV(g8, "drawArrays", NoHandle, "TRIANGLES", <<0, 3>>)
         IN  Call(g9, "bindVertexArray", NoHandle, "")

(***************************************************************************)
(* The callers of the engine.  captureThumbnail is one synchronous call:   *)
(* pc is the statement it is at, code its argument, dataUrl its local,     *)
(* calls the engine calls it has made and result what it returned.         *)
(***************************************************************************)
\* `let dataUrl: string | null = null` and `return null`.
NoUrl == "<null>"

\* No call of captureThumbnail is under way.
NoCapture == [pc |-> "idle", code |-> NoSource, dataUrl |-> NoUrl, calls |-> <<>>,
              result |-> NoUrl]

\* `const requests = new Map()` and `const sseListeners = new Map()`.
BridgeStarted ==
    requests = << >> /\ sseListeners = << >> /\ streams = <<>> /\ accepted = << >>

\* `activeShaderId: null`.
NoShader == 0

\* The store as created, the canvas mounted with its import under way, and
\* the uniform panel not mounted.
AppStarted ==
    /\ shaders = << >> /\ activeShaderId = NoShader
    /\ canvasPc = "importing" /\ rendererRef = FALSE
    /\ debounceRef = 0 /\ timers = << >>
    /\ panelValues = << >> /\ prevUniformsRef = <<>>

\* The generate dialog as mounted: nothing was asked for yet.
NoDialog == [isGenerating |-> FALSE, error |-> "", eventSourceRef |-> 0, pollRef |-> 0,
             gens |-> <<>>]

\* `shaders: [], activeShaderId: null`; rewritten records that some
\* updateShader call carried an id in its partial.
NoStore == [shaders |-> <<>>, activeShaderId |-> NoShader, rewritten |-> FALSE]

CallersIdle ==
    /\ capture = NoCapture /\ BridgeStarted /\ AppStarted /\ dialog = NoDialog
    /\ store = NoStore

(***************************************************************************)
(* The initial state: a constructed WebGLRenderer, no context yet.         *)
(***************************************************************************)

Init ==
    /\ gl = FALSE /\ canvas = FALSE
    /\ program = NoHandle /\ vertexShader = NoHandle /\ fragmentShader = NoHandle
    /\ vao = NoHandle /\ rafId = 0 /\ startTime = 0 /\ mousePos = <<0, 0>>
    /\ customUniforms = << >> /\ contextLost = FALSE
    /\ uTime = NoLocation /\ uResolution = NoLocation /\ uMouse = NoLocation
    /\ lastFragmentSource = NoSource /\ listeners = FALSE
    /\ canvasSize = <<1, 1>>
    /\ handles = [h \in Handles |-> FreeHandle]
    /\ ctxLost = FALSE /\ lostEventPending = FALSE /\ canRestore = FALSE
    /\ rafQueue = {} /\ now = 0
    /\ lifecycle = "new" /\ lastOp = Op("new", "", TRUE, <<>>) /\ gpuLog = <<>>
    /\ lastGoodSource = NoSource /\ everLost = FALSE
    /\ relTwice = FALSE /\ relStale = FALSE /\ atLoss = NotAtLoss
    /\ CallersIdle

(***************************************************************************)
(* init(canvas, options)                                                   *)
(***************************************************************************)
\* canvas.getContext('webgl2') returned a context.
Initialised(c) ==
    /\ gl' = TRUE /\ canvas' = TRUE /\ contextLost' = FALSE
    /\ vao' = c.id
    /\ listeners' = TRUE
    /\ Finish(c.g, Op("init", "", TRUE, <<>>), Refs(Cur, c.id))

Call_init ==
    /\ lifecycle = "new"
    /\ lifecycle' = "ready"
    /\ UNCHANGED <<program, vertexShader, fragmentShader, rafId, startTime,
                   mousePos, customUniforms, uTime, uResolution, uMouse,
                   lastFragmentSource>>
    /\ UNCHANGED <<canvasSize, lostEventPending, canRestore, rafQueue, now>>
    /\ UNCHANGED <<lastGoodSource, everLost>>
    /\ Initialised(CreateObject(G0, "createVertexArray", "vao", FALSE))

\* init on a host that has WebGL 2, called while no caller of the engine is at work.
InitEngine == Call_init /\ UNCHANGED callerVars

\* canvas.getContext('webgl2') returned null.
Call_initFails ==
    /\ lifecycle = "new"
    /\ lifecycle' = "failed"
    /\ UNCHANGED engineVars
    /\ UNCHANGED <<canvasSize, lostEventPending, canRestore, rafQueue, now>>
    /\ UNCHANGED <<lastGoodSource, everLost>>
    /\ Finish(G0, Op("init", "", FALSE, <<>>), CurRefs)

\* init on a host without WebGL 2, called while no caller of the engine is at work.
InitFail == Call_initFails /\ UNCHANGED callerVars

(***************************************************************************)
(* compile(fragmentSource)                                                 *)
(***************************************************************************)
\* compile on an engine without a context, reporting nothing.
NotInitialised_Unreported == <<>>

NotInitialised == <<[line |-> 0, message |-> <<"WebGL context not initialised">>]>>

\* Room in the object table for one compile call.
RoomToCompile == \A i \in 1..Len(Kinds) : FreeIds(handles, Kinds[i]) # {}

\* The assignments of a compile call that ran the pipeline with result r;
\* v is the vertex array the engine holds when the call returns.
Compiled(fragmentSource, r, opName, v) ==
    /\ lastFragmentSource' = RememberedSource(fragmentSource)
    /\ Install(r.e)
    /\ lastGoodSource' = IF r.success THEN fragmentSource ELSE lastGoodSource
    /\ Finish(r.e.g, Op(opName, fragmentSource, r.success, r.errors), Refs(r.e, v))

Call_compile(fragmentSource, fault) ==
    /\ RoomToCompile
    /\ IF ~gl
       THEN /\ UNCHANGED engineVars
            /\ UNCHANGED lastGoodSource
            /\ Finish(G0, Op("compile", fragmentSource, FALSE, NotInitialised), CurRefs)
       ELSE /\ UNCHANGED <<gl, canvas, vao, rafId, startTime, mousePos,
                           contextLost, listeners>>
            /\ Compiled(fragmentSource, CompileRun(Cur, fragmentSource, fault),
                        "compile", vao)
    /\ UNCHANGED <<canvasSize, lostEventPending, canRestore, rafQueue, now>>
    /\ UNCHANGED <<lifecycle, everLost>>

\* compile, called while no caller of the engine is at work.
Compile(fragmentSource, fault) == Call_compile(fragmentSource, fault) /\ UNCHANGED callerVars

(***************************************************************************)
(* setCustomUniform(name, value), setMouse(x, y), resize(width, height)    *)
(***************************************************************************)
\* WithEntry that forgets the other entries.
WithEntry_Alone(map, name, entry) == [n \in {name} |-> entry]

\* Map.prototype.set
WithEntry(map, name, entry) ==
    [n \in DOMAIN map \cup {name} |-> IF n = name THEN entry ELSE map[n]]

Call_setCustomUniform(name, value) ==
    /\ LET resolves == gl /\ program # NoHandle
           g1 == IF resolves THEN Call(G0, "getUniformLocation", program, name) ELSE G0
           location == IF resolves THEN LocationOf(G0, program, name) ELSE NoLocation
       IN  /\ customUniforms' =
                WithEntry(customUniforms, name, [location |-> location, value |-> value])
           /\ UNCHANGED <<gl, canvas, program, vertexShader, fragmentShader, vao,
                          rafId, startTime, mousePos, contextLost, uTime,
                          uResolution, uMouse, lastFragmentSource, listeners>>
           /\ Finish(g1, Op("setCustomUniform", <<name, value>>, TRUE, <<>>), CurRefs)
    /\ UNCHANGED <<canvasSize, lostEventPending, canRestore, rafQueue, now>>
    /\ UNCHANGED <<lifecycle, lastGoodSource, everLost>>

\* setCustomUniform, called while no caller of the engine is at work.
SetCustomUniform(name, value) == Call_setCustomUniform(name, value) /\ UNCHANGED callerVars

SetMouse(x, y) ==
    /\ mousePos' = <<x, y>>
    /\ UNCHANGED <<gl, canvas, program, vertexShader, fragmentShader, vao, rafId,
                   startTime, customUniforms, contextLost, uTime, uResolution,
                   uMouse, lastFragmentSource, listeners>>
    /\ UNCHANGED <<canvasSize, lostEventPending, canRestore, rafQueue, now>>
    /\ UNCHANGED <<lifecycle, lastGoodSource, everLost>>
    /\ Finish(G0, Op("setMouse", "", TRUE, <<>>), CurRefs)
    /\ UNCHANGED callerVars

\* resize with the two dimensions taken for each other.
ResizedTo_Swapped(width, height) == <<height, width>>

\* canvas.width and canvas.height as resize leaves them.
ResizedTo(width, height) == <<width, height>>

Resize(width, height) ==
    /\ UNCHANGED engineVars
    /\ IF ~canvas \/ ~gl
       THEN /\ UNCHANGED canvasSize
            /\ Finish(G0, Op("resize", <<width, height>>, TRUE, <<>>), CurRefs)
       ELSE /\ canvasSize' = ResizedTo(width, height)
            /\ Finish(CallV(G0, "viewport", NoHandle, "", <<width, height>>),
                      Op("resize", <<width, height>>, TRUE, <<>>), CurRefs)
    /\ UNCHANGED <<lostEventPending, canRestore, rafQueue, now>>
    /\ UNCHANGED <<lifecycle, lastGoodSource, everLost>>
    /\ UNCHANGED callerVars

(***************************************************************************)
(* render called directly (as the thumbnail capture does).                 *)
(***************************************************************************)
Call_render(time, resolution, mouse) ==
    /\ UNCHANGED engineVars
    /\ UNCHANGED <<canvasSize, lostEventPending, canRestore, rafQueue, now>>
    /\ UNCHANGED <<lifecycle, lastGoodSource, everLost>>
    /\ Finish(render(G0, time, resolution, mouse),
              Op("render", <<time, resolution, mouse>>, TRUE, <<>>), CurRefs)

\* render, called while no caller of the engine is at work.
Render(time, resolution, mouse) == Call_render(time, resolution, mouse) /\ UNCHANGED callerVars

(***************************************************************************)
(* startLoop(), the frame callback, stopLoop()                             *)
(***************************************************************************)
RafIds == 1..MaxRaf

\* requestAnimationFrame(tick): the id the host hands out.
NewRafId(queue) == CHOOSE id \in RafIds \ queue : \A k \in RafIds \ queue : id <= k

\* A startLoop that keeps the start time the engine had.
LoopStart_Kept == startTime

\* `this.startTime = performance.now() / 1000`
LoopStart == now

Call_startLoop ==
    /\ IF rafId # 0
       THEN UNCHANGED <<startTime, rafId, rafQueue>>
       ELSE /\ RafIds \ rafQueue # {}
            /\ startTime' = LoopStart
            /\ rafId' = NewRafId(rafQueue)
            /\ rafQueue' = rafQueue \cup {rafId'}
    /\ UNCHANGED <<gl, canvas, program, vertexShader, fragmentShader, vao, mousePos,
                   customUniforms, contextLost, uTime, uResolution, uMouse,
                   lastFragmentSource, listeners>>
    /\ UNCHANGED <<canvasSize, lostEventPending, canRestore, now>>
    /\ UNCHANGED <<lifecycle, lastGoodSource, everLost>>
    /\ Finish(G0, Op("startLoop", "", TRUE, <<>>), CurRefs)

\* startLoop, called while no caller of the engine is at work.
StartLoop == Call_startLoop /\ UNCHANGED callerVars

\* The host runs the frame callback it holds under id.
Tick(id) ==
    /\ id \in rafQueue
    /\ LET queue == rafQueue \ {id}
       IN  IF contextLost
           THEN /\ rafId' = 0
                /\ rafQueue' = queue
                /\ Finish(G0, Op("tick", "", FALSE, <<>>), CurRefs)
           ELSE /\ rafId' = NewRafId(queue)
                /\ rafQueue' = queue \cup {rafId'}
                /\ Finish(render(G0, now - startTime,
                                 IF canvas THEN canvasSize ELSE <<0, 0>>, mousePos),
                          Op("tick", <<now - startTime,
                                       IF canvas THEN canvasSize ELSE <<0, 0>>, mousePos>>,
                             TRUE, <<>>), CurRefs)
    /\ UNCHANGED <<gl, canvas, program, vertexShader, fragmentShader, vao, startTime,
                   mousePos, customUniforms, contextLost, uTime, uResolution, uMouse,
                   lastFragmentSource, listeners>>
    /\ UNCHANGED <<canvasSize, lostEventPending, canRestore, now>>
    /\ UNCHANGED <<lifecycle, lastGoodSource, everLost>>
    /\ UNCHANGED callerVars

\* stopLoop that forgets the frame callback without cancelling it.
stopLoop_NoCancel == [rafId |-> 0, rafQueue |-> rafQueue]

\* stopLoop(): the queue and the field it leaves.
stopLoop == [rafId |-> 0, rafQueue |-> IF rafId # 0 THEN rafQueue \ {rafId} ELSE rafQueue]

StopLoop ==
    /\ rafId' = stopLoop.rafId
    /\ rafQueue' = stopLoop.rafQueue
    /\ UNCHANGED <<gl, canvas, program, vertexShader, fragmentShader, vao, startTime,
                   mousePos, customUniforms, contextLost, uTime, uResolution, uMouse,
                   lastFragmentSource, listeners>>
    /\ UNCHANGED <<canvasSize, lostEventPending, canRestore, now>>
    /\ UNCHANGED <<lifecycle, lastGoodSource, everLost>>
    /\ Finish(G0, Op("stopLoop", "", TRUE, <<>>), CurRefs)
    /\ UNCHANGED callerVars

(***************************************************************************)
(* destroy()                                                               *)
(***************************************************************************)
\* ListenersAfterDestroy with the two removeEventListener calls left out.
ListenersAfterDestroy_Kept == listeners

\* The listeners destroy leaves registered on the canvas.
ListenersAfterDestroy == IF canvas THEN FALSE ELSE listeners

\* destroy with this.gl set, after deleteProgram() left e1: the vertex array
\* is released and the context is made to lose itself.
Disposed(e1) ==
    /\ program' = e1.program
    /\ vertexShader' = e1.vertexShader
    /\ fragmentShader' = e1.fragmentShader
    /\ uTime' = e1.uTime /\ uResolution' = e1.uResolution /\ uMouse' = e1.uMouse
    /\ vao' = NoHandle
    /\ lostEventPending' = (lostEventPending \/ ~ctxLost)
    /\ Finish(IF ctxLost
              THEN Call(DeleteIfSet(e1.g, "deleteVertexArray", vao),
                        "getExtension", NoHandle, "WEBGL_lose_context")
              ELSE LoseContext(Call(DeleteIfSet(e1.g, "deleteVertexArray", vao),
                                    "getExtension", NoHandle, "WEBGL_lose_context")),
              Op("destroy", "", TRUE, <<>>), {})

Call_destroy ==
    /\ rafId' = stopLoop.rafId
    /\ rafQueue' = stopLoop.rafQueue
    /\ gl' = FALSE /\ canvas' = FALSE
    /\ customUniforms' = << >>
    /\ listeners' = ListenersAfterDestroy
    /\ lifecycle' = "destroyed"
    /\ UNCHANGED <<startTime, mousePos, contextLost, lastFragmentSource>>
    /\ UNCHANGED <<canvasSize, canRestore, now>>
    /\ UNCHANGED <<lastGoodSource, everLost>>
    /\ IF gl
       THEN Disposed(deleteProgram(Cur))
       ELSE /\ UNCHANGED <<program, vertexShader, fragmentShader, vao, uTime,
                           uResolution, uMouse>>
            /\ UNCHANGED lostEventPending
            /\ Finish(G0, Op("destroy", "", TRUE, <<>>), CurRefs)

\* destroy, called while no caller of the engine is at work.
Destroy == Call_destroy /\ UNCHANGED callerVars

(***************************************************************************)
(* The host: loss and restoration of the device context, and the clock.    *)
(***************************************************************************)
\* The context is lost: its objects are invalidated and the event is queued.
\* A destroyed engine's context can be lost again only once the host has
\* restored it.
DeviceLoss ==
    /\ lifecycle = "ready" \/ (lifecycle = "destroyed" /\ everLost)
    /\ ~ctxLost
    /\ lostEventPending' = TRUE
    /\ everLost' = TRUE
    /\ UNCHANGED engineVars
    /\ UNCHANGED <<canvasSize, canRestore, rafQueue, now>>
    /\ UNCHANGED <<lifecycle, lastGoodSource>>
    /\ Finish([G0 EXCEPT !.lost = TRUE, !.hs = Invalidate(handles)],
              Op("deviceLoss", "", TRUE, <<>>), CurRefs)
    /\ UNCHANGED callerVars

\* The webglcontextlost event is dispatched: handleContextLost runs if it
\* is still registered.
ContextLostEvent ==
    /\ lostEventPending
    /\ lostEventPending' = FALSE
    /\ IF listeners
       THEN /\ canRestore' = TRUE
            /\ contextLost' = TRUE
            /\ rafId' = stopLoop.rafId
            /\ rafQueue' = stopLoop.rafQueue
       ELSE /\ canRestore' = FALSE
            /\ UNCHANGED <<contextLost, rafId, rafQueue>>
    /\ UNCHANGED <<gl, canvas, program, vertexShader, fragmentShader, vao, startTime,
                   mousePos, customUniforms, uTime, uResolution, uMouse,
                   lastFragmentSource, listeners>>
    /\ UNCHANGED <<canvasSize, now>>
    /\ UNCHANGED <<lifecycle, lastGoodSource, everLost>>
    /\ Finish(G0, Op("contextLost", "", listeners, <<>>), CurRefs)
    /\ UNCHANGED callerVars

\* private reInit(), called by handleContextRestored with this.gl set: the
\* source it recompiles, or NoSource when it recompiles nothing.
ReInitSource == IF Truthy(lastFragmentSource) THEN lastFragmentSource ELSE NoSource

\* What handleContextRestored does to the loop.
LoopAfterRestore == [rafId |-> rafId, rafQueue |-> rafQueue, startTime |-> startTime]

\* handleContextRestored with this.gl set; c is what gl.createVertexArray
\* returned to reInit.
Restored(c, fault) ==
    /\ contextLost' = FALSE
    /\ vao' = c.id
    /\ rafId' = LoopAfterRestore.rafId
    /\ rafQueue' = LoopAfterRestore.rafQueue
    /\ startTime' = LoopAfterRestore.startTime
    /\ UNCHANGED <<gl, canvas, mousePos, listeners>>
    /\ IF ReInitSource # NoSource
       THEN Compiled(ReInitSource, CompileRun([Cur EXCEPT !.g = c.g], ReInitSource, fault),
                     "contextRestored", c.id)
       ELSE /\ UNCHANGED <<program, vertexShader, fragmentShader, uTime, uResolution,
                           uMouse, customUniforms, lastFragmentSource>>
            /\ UNCHANGED lastGoodSource
            /\ Finish(c.g, Op("contextRestored", NoSource, FALSE, <<>>), Refs(Cur, c.id))

\* The host restores the context and dispatches webglcontextrestored:
\* handleContextRestored runs if it is still registered.
ContextRestoredEvent(fault) ==
    /\ ctxLost /\ ~lostEventPending /\ canRestore
    /\ canRestore' = FALSE
    /\ IF ~listeners
       THEN /\ UNCHANGED engineVars
            /\ UNCHANGED lastGoodSource
            /\ UNCHANGED rafQueue
            /\ Finish([G0 EXCEPT !.lost = FALSE],
                      Op("contextRestored", NoSource, FALSE, <<>>), CurRefs)
       ELSE /\ RoomToCompile
            /\ Restored(CreateObject([G0 EXCEPT !.lost = FALSE], "createVertexArray",
                                     "vao", FALSE), fault)
    /\ UNCHANGED <<canvasSize, lostEventPending, now>>
    /\ UNCHANGED <<lifecycle, everLost>>
    /\ UNCHANGED callerVars

\* Time passes.  The clock stands still under Spec; AdvanceTime belongs to
\* the specifications that are about elapsed time.
AdvanceTime ==
    /\ now < MaxTime
    /\ now' = now + 1
    /\ UNCHANGED engineVars
    /\ UNCHANGED <<canvasSize, lostEventPending, canRestore, rafQueue>>
    /\ UNCHANGED <<lifecycle, lastGoodSource, everLost>>
    /\ Finish(G0, Op("time", "", TRUE, <<>>), CurRefs)
    /\ UNCHANGED callerVars

(***************************************************************************)
(* The specification: a caller that may invoke any method at any time, on  *)
(* a host that may lose and restore the context at any time.               *)
(***************************************************************************)
\* The compile calls: every source on a host that makes nothing go wrong, and
\* source "A" under each fault of the host.
CompileInputs == (Sources \X {"none"}) \cup ({"A"} \X EnvFaults)

Next ==
    \/ InitEngine
    \/ InitFail
    \/ \E in \in CompileInputs : Compile(in[1], in[2])
    \/ \E n \in {"u_a"}, v \in {Number(7)} : SetCustomUniform(n, v)
    \/ SetMouse(1, 1)
    \/ Resize(2, 1)
    \/ Render(1, <<2, 2>>, <<0, 0>>)
    \/ StartLoop
    \/ \E id \in RafIds : Tick(id)
    \/ StopLoop
    \/ Destroy
    \/ DeviceLoss
    \/ ContextLostEvent
    \/ \E f \in {"none", "programAlloc"} : ContextRestoredEvent(f)

Spec == Init /\ [][Next]_vars

(***************************************************************************)
(* The specification of the loop: one shader, a clock that advances, and   *)
(* every interleaving of startLoop, stopLoop, the frame callbacks, loss,   *)
(* restoration and destroy.                                                *)
(***************************************************************************)
NextLoop ==
    \/ InitEngine
    \/ Compile("A", "none")
    \/ StartLoop
    \/ \E id \in RafIds : Tick(id)
    \/ StopLoop
    \/ AdvanceTime
    \/ Destroy
    \/ DeviceLoss
    \/ ContextLostEvent
    \/ ContextRestoredEvent("none")

SpecLoop == Init /\ [][NextLoop]_vars

(***************************************************************************)
(* The specification of parseInfoLog: a log of up to MaxLines lines, each  *)
(* drawn from lines that have or lack each part of the pattern, is parsed. *)
(***************************************************************************)
\* SEVERITY ":" " " INDEX ":" LINE ":" " " message, each part present or not.
PatternLines ==
    {<<sev, ":", " ">> \o idx \o <<":">> \o num \o <<":">> \o msg :
        sev \in {"ERROR", "warning", "INFO"},
        idx \in {<<"0">>, <<"1">>, <<>>},
        num \in {<<"1", "2">>, <<>>},
        msg \in {<<" ", "x", " ", "y">>, <<>>}}

\* Blank lines, free text, and pattern lines with whitespace moved.
OtherLines ==
    { <<>>, <<" ", "\t">>, <<" ", "text", " ">>,
      <<"\t", "Error", ":", "0", ":", "7", ":", "x", " ">>,
      <<"ERROR", ":", " ", "0", ":", " ", "7", ":", " ", "x">>,
      <<"ERROR", " ", ":", " ", "0", ":", "7", ":", " ", "x">> }

LogLines == PatternLines \cup OtherLines

Logs == UNION {[1..n -> LogLines] : n \in 0..MaxLines}

InitParse ==
    /\ gl = FALSE /\ canvas = FALSE
    /\ program = NoHandle /\ vertexShader = NoHandle /\ fragmentShader = NoHandle
    /\ vao = NoHandle /\ rafId = 0 /\ startTime = 0 /\ mousePos = <<0, 0>>
    /\ customUniforms = << >> /\ contextLost = FALSE
    /\ uTime = NoLocation /\ uResolution = NoLocation /\ uMouse = NoLocation
    /\ lastFragmentSource = NoSource /\ listeners = FALSE
    /\ canvasSize = <<1, 1>>
    /\ handles = [h \in Handles |-> FreeHandle]
    /\ ctxLost = FALSE /\ lostEventPending = FALSE /\ canRestore = FALSE
    /\ rafQueue = {} /\ now = 0
    /\ lifecycle = "new" /\ gpuLog = <<>>
    /\ lastGoodSource = NoSource /\ everLost = FALSE
    /\ relTwice = FALSE /\ relStale = FALSE /\ atLoss = NotAtLoss
    /\ CallersIdle
    /\ \E log \in Logs : lastOp = Op("getShaderInfoLog", log, TRUE, <<>>)

\* parseInfoLog(log) is called on the log the driver returned.
ParseInfoLog ==
    /\ lastOp.op = "getShaderInfoLog"
    /\ UNCHANGED engineVars
    /\ UNCHANGED <<canvasSize, lostEventPending, canRestore, rafQueue, now>>
    /\ UNCHANGED <<lifecycle, lastGoodSource, everLost>>
    /\ Finish(G0, Op("parseInfoLog", lastOp.arg, TRUE, parseInfoLog(lastOp.arg)),
              CurRefs)
    /\ UNCHANGED callerVars

NextParse == ParseInfoLog

SpecParse == InitParse /\ [][NextParse]_vars

(***************************************************************************)
(* The specifications of pure functions start from an engine that was      *)
(* constructed and never used.                                             *)
(***************************************************************************)
Constructed ==
    /\ gl = FALSE /\ canvas = FALSE
    /\ program = NoHandle /\ vertexShader = NoHandle /\ fragmentShader = NoHandle
    /\ vao = NoHandle /\ rafId = 0 /\ startTime = 0 /\ mousePos = <<0, 0>>
    /\ customUniforms = << >> /\ contextLost = FALSE
    /\ uTime = NoLocation /\ uResolution = NoLocation /\ uMouse = NoLocation
    /\ lastFragmentSource = NoSource /\ listeners = FALSE
    /\ canvasSize = <<1, 1>>
    /\ handles = [h \in Handles |-> FreeHandle]
    /\ ctxLost = FALSE /\ lostEventPending = FALSE /\ canRestore = FALSE
    /\ rafQueue = {} /\ now = 0
    /\ lifecycle = "new" /\ gpuLog = <<>>
    /\ lastGoodSource = NoSource /\ everLost = FALSE
    /\ relTwice = FALSE /\ relStale = FALSE /\ atLoss = NotAtLoss
    /\ CallersIdle

\* The call of a pure function on arg, and its return value.
Applied(name, arg, result) ==
    [op |-> name, arg |-> arg, success |-> TRUE, errors |-> <<>>, result |-> result]

\* A step that calls a pure function.
Apply(name, arg, result) ==
    /\ UNCHANGED engineVars
    /\ UNCHANGED <<canvasSize, lostEventPending, canRestore, rafQueue, now>>
    /\ UNCHANGED <<lifecycle, lastGoodSource, everLost>>
    /\ Finish(G0, Applied(name, arg, result), CurRefs)
    /\ UNCHANGED callerVars

(***************************************************************************)
(* The specification of discovery: a source of up to MaxDecls pieces, each *)
(* a declaration or other text, one after the other on the same line or on *)
(* the next, is given to parseUniforms.                                    *)
(***************************************************************************)
Decl(type, name) == <<"uniform", " ", type, " ">> \o name \o <<";">>

DeclNames == {<<"u_a">>, <<"u_", "Color">>, <<"u_time">>}

Piece(isDecl, type, name, text) ==
    [decl |-> isDecl, type |-> type, name |-> name, text |-> text]

Pieces ==
    {Piece(TRUE, t, n, Decl(t, n)) : t \in SUPPORTED_TYPES, n \in DeclNames}
    \cup { Piece(FALSE, "", <<>>, <<"void", " ", "main", "(", ")">>),
           Piece(TRUE, "float", <<"u_b">>,
                 Decl("float", <<"u_b">>) \o <<" ", "//", " ", "speed">>),
           Piece(TRUE, "vec2", <<"u_b">>,
                 <<"uniform", "\n", "vec2", "\t", "u_b", " ", ";">>) }

Separators == {<<"\n">>, <<" ">>}

SourcesOf(n) == [1..n -> Pieces] \X [1..(n - 1) -> Separators]

DiscoverySources == UNION {SourcesOf(n) : n \in 0..MaxDecls}

\* The text of a source: its pieces with the separators between them.
RECURSIVE TextFrom(_, _, _)
TextFrom(pieces, separators, k) ==
    IF k > Len(pieces) THEN <<>>
    ELSE (IF k > 1 THEN separators[k - 1] ELSE <<>>)
         \o pieces[k].text \o TextFrom(pieces, separators, k + 1)

Text(source) == TextFrom(source[1], source[2], 1)

InitDiscovery ==
    /\ Constructed
    /\ \E source \in DiscoverySources : lastOp = Applied("edit", source, <<>>)

ParseUniforms ==
    /\ lastOp.op = "edit"
    /\ Apply("parseUniforms", lastOp.arg, parseUniforms(Text(lastOp.arg)))

NextDiscovery == ParseUniforms

SpecDiscovery == InitDiscovery /\ [][NextDiscovery]_vars

(***************************************************************************)
(* The specification of the hints: one declaration of each type, followed  *)
(* by a comment that holds any subset of the three hints in any order,     *)
(* with 1 to MaxValues numbers in the default hint, is given to            *)
(* parseUniforms.  A number is written as its tokens and stands for value  *)
(* hundredths.                                                             *)
(***************************************************************************)
Literal(text, value) == [text |-> text, value |-> value]

RangeLiterals ==
    { <<Literal(<<"2", ".", "0">>, 200), Literal(<<"2", "0", ".", "0">>, 2000)>>,
      <<Literal(<<"-", "2", ".", "0">>, -200), Literal(<<"2", ".", "0">>, 200)>> }

DefaultLiterals ==
    << Literal(<<"8", ".", "0">>, 800), Literal(<<"-", "0", ".", "5">>, -50),
       Literal(<<"0", ".", "0">>, 0) >>

\* n numbers for a default hint: DefaultLiterals taken in turn from the
\* first or from the second.
DefaultList(first, n) ==
    [k \in 1..n |-> DefaultLiterals[((first + k - 2) % Len(DefaultLiterals)) + 1]]

StepLiterals ==
    { <<Literal(<<"1", ".", "0">>, 100)>>, <<Literal(<<"0", ".", "2", "5">>, 25)>> }

Hint(kind, values) == [kind |-> kind, values |-> values]

HintKinds == {"range", "default", "step"}

\* One hint of each kind.
HintChoices ==
    [range : {Hint("range", v) : v \in RangeLiterals},
     default : {Hint("default", v) :
                   v \in {DefaultList(first, n) : first \in 1..2, n \in 1..MaxValues}},
     step : {Hint("step", v) : v \in StepLiterals}]

\* The orders in which a subset of the kinds can be written.
KindOrders ==
    {o \in UNION {[1..n -> HintKinds] : n \in 0..3} :
        \A i, j \in 1..Len(o) : i # j => o[i] # o[j]}

HintLists == UNION {{[i \in 1..Len(o) |-> c[o[i]]] : c \in HintChoices} : o \in KindOrders}

\* "a, b, c"
RECURSIVE Listed(_, _)
Listed(values, k) ==
    IF k > Len(values) THEN <<>>
    ELSE (IF k > 1 THEN <<",", " ">> ELSE <<>>) \o values[k].text \o Listed(values, k + 1)

HintText(hint) == <<hint.kind, ":", " ">> \o Listed(hint.values, 1)

RECURSIVE HintsText(_, _)
HintsText(hints, k) ==
    IF k > Len(hints) THEN <<>>
    ELSE (IF k > 1 THEN <<",", " ">> ELSE <<>>) \o HintText(hints[k]) \o HintsText(hints, k + 1)

\* uniform <type> <name>; // <hints>
HintedText(type, name, hints) ==
    Decl(type, name)
    \o (IF hints = <<>> THEN <<>> ELSE <<" ", "//", " ">> \o HintsText(hints, 1))

HintedSources == {[type |-> t, name |-> <<"u_cells">>, hints |-> h] :
                     t \in SUPPORTED_TYPES, h \in HintLists}

InitHints ==
    /\ Constructed
    /\ \E source \in HintedSources : lastOp = Applied("edit", source, <<>>)

ParseHinted ==
    /\ lastOp.op = "edit"
    /\ Apply("parseUniforms", lastOp.arg,
             parseUniforms(HintedText(lastOp.arg.type, lastOp.arg.name, lastOp.arg.hints)))

NextHints == ParseHinted

SpecHints == InitHints /\ [][NextHints]_vars

(***************************************************************************)
(* The specification of the uniforms: every value setCustomUniform takes,  *)
(* under two names, on a host that allocates whatever it is asked for.     *)
(* The pointer and the surface keep the values they start with.            *)
(***************************************************************************)
UniformInputs == ({"u_a"} \X UniformValues) \cup ({"u_b"} \X {Number(7)})

NextUniforms ==
    \/ InitEngine
    \/ \E source \in {"A", "B", "E"} : Compile(source, "none")
    \/ \E in \in UniformInputs : SetCustomUniform(in[1], in[2])
    \/ SetMouse(0, 0)
    \/ Resize(1, 1)
    \/ Render(1, <<2, 2>>, <<0, 0>>)
    \/ Destroy
    \/ DeviceLoss
    \/ ContextLostEvent
    \/ ContextRestoredEvent("none")

SpecUniforms == Init /\ [][NextUniforms]_vars

(***************************************************************************)
(* Properties.                                                             *)
(***************************************************************************)
HasCall(log, name, h) == \E i \in 1..Len(log) : log[i][1] = name /\ log[i][2] = h

IssuesCall(log, name) == \E i \in 1..Len(log) : log[i][1] = name

IsDelete(call) == call \in {"deleteShader", "deleteProgram", "deleteVertexArray"}

\* The stage and program objects created and not yet released.
Unreleased ==
    {h \in Handles : handles[h].state = "live" /\ handles[h].kind # "vao"}

Current == {program, vertexShader, fragmentShader} \ {NoHandle}

\* The program is the valid one linked by the most recent successful compile.
DrawsLastGood ==
    /\ program # NoHandle
    /\ handles[program].state = "live"
    /\ handles[program].status = "linked"
    /\ handles[program].src = lastGoodSource

\* The last operation was a frame that drew with the current program.
FrameDrawn ==
    /\ lastOp.op \in {"render", "tick"}
    /\ HasCall(gpuLog, "useProgram", program)
    /\ IssuesCall(gpuLog, "drawArrays")

Failing == {s \in Sources : ~(FragmentCompiles(s) /\ ProgramLinks(s))}

\* C1: on an initialised engine whose context is not lost, a compile that
\* fails (vertex stage, fragment stage, allocation or link) leaves the current
\* program, its two stages and every cached location as they were; so while
\* the context has never been lost the current program is the valid program
\* linked by the most recent successful compile, and every frame rendered
\* once a compile has succeeded activates it and draws.
C1_FailedCompileKeepsProgram ==
    /\ [][(lastOp'.op = "compile" /\ gl /\ ~ctxLost /\ ~lastOp'.success) =>
            /\ program' = program
            /\ vertexShader' = vertexShader
            /\ fragmentShader' = fragmentShader
            /\ uTime' = uTime /\ uResolution' = uResolution /\ uMouse' = uMouse
            /\ customUniforms' = customUniforms
            /\ program # NoHandle => handles'[program] = handles[program]]_vars
    /\ [](lifecycle = "ready" /\ ~everLost /\ lastGoodSource # NoSource =>
            /\ DrawsLastGood
            /\ lastOp.op \in {"render", "tick"} => FrameDrawn)

\* A frame drawn with program "A" after a later compile was rejected.
C1_Witness ==
    /\ lifecycle = "ready" /\ ~everLost
    /\ lastFragmentSource \in Failing
    /\ lastGoodSource = "A"
    /\ FrameDrawn

\* C2: between any two operations the current program is absent (with no
\* stage held) or a program whose two stages compiled and which linked, none
\* of the three released; it is the program of the most recent successful
\* compile, and a frame that issues any GL call activates exactly it.
C2_CurrentProgramIsLinked ==
    /\ program = NoHandle => vertexShader = NoHandle /\ fragmentShader = NoHandle
    /\ program # NoHandle =>
          /\ handles[program].kind = "program"
          /\ handles[program].status = "linked"
          /\ handles[program].src = lastGoodSource
          /\ handles[vertexShader].kind = "vertex"
          /\ handles[fragmentShader].kind = "fragment"
          /\ \A h \in Current : /\ handles[h].state \in {"live", "invalid"}
                                /\ handles[h].status \in {"compiled", "linked"}
    /\ (lastOp.op \in {"render", "tick"} /\ gpuLog # <<>>) =>
          /\ HasCall(gpuLog, "useProgram", program)
          /\ \A i \in 1..Len(gpuLog) : gpuLog[i][1] = "useProgram" => gpuLog[i][2] = program

\* A frame callback that ran after "B" replaced an earlier program.
C2_Witness ==
    /\ lastOp.op = "tick"
    /\ FrameDrawn
    /\ handles[program].src = "B"
    /\ program # LowestOf(HandlesOf("program"))

\* C3 as stated: every compile(source) call leaves source as the last known
\* fragment source, also on an engine with no context.
C3_EveryCompileRecordsSource ==
    lastOp.op = "compile" => lastFragmentSource = lastOp.arg

\* C3: a compile(source) call on an engine that holds a context records
\* source whatever the outcome, also while the context is lost; a call on an
\* engine that holds none (not initialised, init failed, destroyed) fails and
\* leaves the last known fragment source as it was.
C3_CompileRecordsSourceWithContext ==
    /\ [](lastOp.op = "compile" /\ gl => lastFragmentSource = lastOp.arg)
    /\ [][(lastOp'.op = "compile" /\ ~gl) =>
            /\ lastFragmentSource' = lastFragmentSource
            /\ ~lastOp'.success
            /\ lastOp'.errors = NotInitialised]_vars

\* A compile made while the engine was Lost failed and was recorded.
C3_Witness ==
    /\ lastOp.op = "compile" /\ gl /\ contextLost
    /\ ~lastOp.success
    /\ lastOp.arg = "B" /\ lastFragmentSource = "B" /\ lastGoodSource = "A"

\* The restore handler ran, for a loss signalled while a program was current
\* and with no compile called since, on a host that allocated every object it
\* was asked for.
RestoredWithProgram ==
    /\ lastOp.op = "contextRestored" /\ listeners
    /\ atLoss.signalled /\ atLoss.source # NoSource
    /\ lastOp.errors # AllocError("Failed to create program object")

\* C4: after the restore handler returns the engine is not Lost, holds a
\* fresh vertex array and a valid program compiled from the last known
\* fragment source, with every location resolved against it, and that program
\* is built from the source of the program current at the loss.
C4_RestoreRebuildsProgram ==
    RestoredWithProgram =>
        /\ ~contextLost
        /\ vao # NoHandle /\ handles[vao].state = "live"
        /\ program # NoHandle
        /\ handles[program].state = "live"
        /\ handles[program].src = lastFragmentSource
        /\ handles[program].src = atLoss.source
        /\ uTime = LocationOf(G0, program, "u_time")
        /\ uResolution = LocationOf(G0, program, "u_resolution")
        /\ uMouse = LocationOf(G0, program, "u_mouse")
        /\ \A n \in DOMAIN customUniforms :
              customUniforms[n].location = LocationOf(G0, program, n)

\* C5: when the loss was signalled while the frame loop ran, the restore
\* handler leaves a frame callback scheduled, so that frames are rendered
\* again with no call of startLoop.
C5_LoopResumesAfterRestore ==
    (lastOp.op = "contextRestored" /\ listeners /\ atLoss.signalled /\ atLoss.running) =>
        rafId # 0 /\ rafId \in rafQueue

\* C6: the source the restore handler recompiles is the source of the most
\* recent compile that succeeded.
C6_RestoreRecompilesLastGood ==
    [][(lastOp'.op = "contextRestored" /\ listeners /\ lastGoodSource # NoSource) =>
          lastOp'.arg = lastGoodSource]_vars

EngineMethods == {"compile", "setCustomUniform", "setMouse", "resize", "render",
                  "startLoop", "stopLoop", "destroy"}

\* C7: a method of the engine invoked while the engine is Lost issues no GL
\* call.
C7_NoGpuCallWhileLost ==
    [][(contextLost /\ lastOp'.op \in EngineMethods) => gpuLog' = <<>>]_vars

\* C8: the compile re-run by the restore handler passes no handle that the
\* loss invalidated to a delete call.
C8_RestoreReleasesNoStaleHandle ==
    [][(lastOp'.op = "contextRestored" /\ listeners /\ ~relStale) => ~relStale']_vars

\* C9: on an engine initialised once whose context is never lost, the stage
\* and program objects created and not yet released are exactly the current
\* program and its two stages (all three or none), no handle is ever passed
\* to a delete call twice, and destroy passes every unreleased one to a delete
\* call.
C9_HandlesOwnedAndReleasedOnce ==
    /\ [](~everLost =>
            /\ ~relTwice
            /\ lifecycle = "ready" =>
                  /\ Unreleased = Current
                  /\ Cardinality(Current) \in {0, 3}
                  /\ vao # NoHandle /\ handles[vao].state = "live")
    /\ [][(lastOp'.op = "destroy" /\ ~everLost) =>
            /\ \A h \in Unreleased :
                  \E i \in 1..Len(gpuLog') : IsDelete(gpuLog'[i][1]) /\ gpuLog'[i][2] = h
            /\ \A i, j \in 1..Len(gpuLog') :
                  (IsDelete(gpuLog'[i][1]) /\ IsDelete(gpuLog'[j][1]) /\ i # j) =>
                      gpuLog'[i][2] # gpuLog'[j][2]
            /\ \A h \in Handles : handles'[h].state # "live"]_vars

\* destroy released a program that had outlived a rejected compile.
C9_Witness ==
    /\ lifecycle = "destroyed" /\ ~everLost
    /\ lastOp.op = "destroy"
    /\ IssuesCall(gpuLog, "deleteProgram")
    /\ lastGoodSource = "B" /\ lastFragmentSource = "L"

C11_FrameDrawsOnceOrNothing ==
    lastOp.op \in {"render", "tick"} =>
        IF program = NoHandle \/ contextLost
        THEN gpuLog = <<>>
        ELSE \E c, u, d \in 1..Len(gpuLog) :
                /\ c < u /\ u < d
                /\ gpuLog[c][1] = "clear"
                /\ gpuLog[u] = <<"useProgram", program, "", <<>>>>
                /\ gpuLog[d] = <<"drawArrays", NoHandle, "TRIANGLES", <<0, 3>>>>
                /\ \A i \in 1..Len(gpuLog) : gpuLog[i][1] = "drawArrays" => i = d

\* render was called on a Lost engine that holds a program, and did nothing.
C11_Witness ==
    /\ lastOp.op = "render"
    /\ contextLost /\ gl /\ program # NoHandle
    /\ gpuLog = <<>>

UniformCalls == {"uniform1f", "uniform2f", "uniform3f", "uniform4f"}

\* The calls of the last operation that push a value for the uniform name.
Pushes(name) ==
    {i \in 1..Len(gpuLog) : gpuLog[i][1] \in UniformCalls /\ gpuLog[i][3] = name}

\* The last operation was a frame that issued GL calls.
FrameRendered == lastOp.op \in {"render", "tick"} /\ gpuLog # <<>>

\* A built-in uniform is pushed once, to its location, when that is not null.
BuiltInPushed(location, name, call, val) ==
    IF location # NoLocation
    THEN \E i \in 1..Len(gpuLog) :
            Pushes(name) = {i} /\ gpuLog[i] = <<call, location[1], name, val>>
    ELSE Pushes(name) = {}

BuiltInsPushed ==
    /\ BuiltInPushed(uTime, "u_time", "uniform1f", <<lastOp.arg[1]>>)
    /\ BuiltInPushed(uResolution, "u_resolution", "uniform2f", lastOp.arg[2])
    /\ BuiltInPushed(uMouse, "u_mouse", "uniform2f", lastOp.arg[3])

\* The call that pushes a value, if there is one.
CallFor(value) ==
    IF ~value.isArray THEN "uniform1f"
    ELSE CASE Len(value.v) = 2 -> "uniform2f"
           [] Len(value.v) = 3 -> "uniform3f"
           [] Len(value.v) = 4 -> "uniform4f"
           [] OTHER -> "none"

\* C12 as stated: on a frame that is not a no-op each built-in uniform is
\* pushed exactly when its location is not null, and every custom uniform
\* whose location is not null is pushed exactly once with its stored value,
\* whatever the length of a tuple; one whose location is null is not pushed.
C12_EveryResolvedUniformPushed ==
    FrameRendered =>
        /\ BuiltInsPushed
        /\ \A n \in UniformNames :
              IF n \in DOMAIN customUniforms /\ customUniforms[n].location # NoLocation
              THEN \E i \in 1..Len(gpuLog) :
                      /\ Pushes(n) = {i}
                      /\ gpuLog[i][2] = customUniforms[n].location[1]
                      /\ gpuLog[i][4] = customUniforms[n].value.v
              ELSE Pushes(n) = {}

\* C12: on a frame that is not a no-op each built-in uniform is pushed
\* exactly when its location is not null; a custom uniform is pushed, exactly
\* once and with its stored value, when its location is not null and its
\* value is a scalar or a tuple of 2, 3 or 4 numbers (by uniform1f, 2f, 3f,
\* 4f); one whose location is null, or whose value is a tuple of any other
\* length, is not pushed.
C12_ResolvedUniformsOfKnownShapePushed ==
    FrameRendered =>
        /\ BuiltInsPushed
        /\ \A n \in UniformNames :
              IF /\ n \in DOMAIN customUniforms
                 /\ customUniforms[n].location # NoLocation
                 /\ CallFor(customUniforms[n].value) # "none"
              THEN \E i \in 1..Len(gpuLog) :
                      /\ Pushes(n) = {i}
                      /\ gpuLog[i] = <<CallFor(customUniforms[n].value),
                                       customUniforms[n].location[1], n,
                                       customUniforms[n].value.v>>
              ELSE Pushes(n) = {}

\* A frame of program "A" pushed the 3-tuple stored for u_a and the time,
\* and no pointer position, which "A" does not use.
C12_Witness ==
    /\ FrameRendered
    /\ "u_a" \in DOMAIN customUniforms
    /\ customUniforms["u_a"].value = Array(<<1, 2, 3>>)
    /\ customUniforms["u_a"].location # NoLocation
    /\ Pushes("u_a") # {}
    /\ Pushes("u_time") # {} /\ Pushes("u_mouse") = {}

\* C13: while the engine is initialised and not Lost (and the device has
\* not lost the context unnoticed), every cached location, built-in or
\* custom, is what its name resolves to in the current program: null with no
\* current program, with a program that is not valid, and for a name the
\* program does not use.
C13_CachedLocationsAreResolved ==
    (gl /\ ~contextLost /\ ~ctxLost) =>
        /\ uTime = LocationOf(G0, program, "u_time")
        /\ uResolution = LocationOf(G0, program, "u_resolution")
        /\ uMouse = LocationOf(G0, program, "u_mouse")
        /\ \A n \in DOMAIN customUniforms :
              customUniforms[n].location = LocationOf(G0, program, n)

\* setCustomUniform(name, value) leaves one entry for name, holding value,
\* and changes nothing else of the entries, the program, the last known
\* source and the loop.
SetCustomUniformSetsOneEntry ==
    lastOp'.op = "setCustomUniform" =>
        /\ lastOp'.success
        /\ DOMAIN customUniforms' = DOMAIN customUniforms \cup {lastOp'.arg[1]}
        /\ customUniforms'[lastOp'.arg[1]].value = lastOp'.arg[2]
        /\ \A n \in DOMAIN customUniforms \ {lastOp'.arg[1]} :
              customUniforms'[n] = customUniforms[n]
        /\ UNCHANGED <<program, vertexShader, fragmentShader, lastFragmentSource,
                       rafId, rafQueue, startTime>>

\* No operation but setCustomUniform and destroy changes a stored value.
OnlySetCustomUniformChangesValues ==
    lastOp'.op \notin {"setCustomUniform", "destroy"} =>
        /\ DOMAIN customUniforms' = DOMAIN customUniforms
        /\ \A n \in DOMAIN customUniforms :
              customUniforms'[n].value = customUniforms[n].value

\* The current program is valid and uses the uniform name.
Declares(name) ==
    /\ program # NoHandle
    /\ handles[program].state = "live"
    /\ name \in ActiveUniforms(handles[program].src)

PushedWithValue(name) ==
    \E i \in 1..Len(gpuLog) :
        Pushes(name) = {i} /\ gpuLog[i][4] = customUniforms[name].value.v

\* C14 as stated: setCustomUniform sets one entry and nothing else; only
\* setCustomUniform and destroy change a stored value; and a frame of a valid
\* program pushes, with its stored value, every entry whose name the program
\* uses, whenever it was set and whatever its value.
C14_StoredValuesPersistAndArePushed ==
    /\ [][SetCustomUniformSetsOneEntry]_vars
    /\ [][OnlySetCustomUniformChangesValues]_vars
    /\ [](FrameRendered =>
            \A n \in DOMAIN customUniforms : Declares(n) => PushedWithValue(n))

\* C14: setCustomUniform sets one entry and nothing else; only
\* setCustomUniform and destroy change a stored value; and a frame of a valid
\* program pushes, with its stored value, every entry whose name the program
\* uses and whose value is a scalar or a tuple of 2, 3 or 4 numbers, whenever
\* it was set.
C14_StoredValuesPersist ==
    /\ [][SetCustomUniformSetsOneEntry]_vars
    /\ [][OnlySetCustomUniformChangesValues]_vars
    /\ [](FrameRendered =>
            \A n \in DOMAIN customUniforms :
                (Declares(n) /\ CallFor(customUniforms[n].value) # "none") =>
                    PushedWithValue(n))

\* A frame of program "B" pushed u_b while u_a, which "B" does not use, kept
\* its value and was not pushed.
C14_Witness ==
    /\ FrameRendered
    /\ DOMAIN customUniforms = {"u_a", "u_b"}
    /\ Declares("u_b") /\ PushedWithValue("u_b")
    /\ customUniforms["u_a"].value = Array(<<1, 2>>)
    /\ Pushes("u_a") = {}

\* The frame callbacks the host holds are the one the engine remembers.
OnePending == rafQueue = IF rafId = 0 THEN {} ELSE {rafId}

\* startLoop on a running loop requests nothing and keeps the clock origin.
StartLoopIsIdempotent ==
    (lastOp'.op = "startLoop" /\ rafId # 0) => UNCHANGED <<startTime, rafId, rafQueue>>

\* A frame callback runs only in a loop that was started and not stopped
\* since: stopLoop leaves no callback, and only startLoop starts a stopped loop.
NoFrameAfterStopLoop ==
    /\ lastOp'.op = "stopLoop" => (rafId' = 0 /\ rafQueue' = {})
    /\ lastOp'.op = "tick" => (rafId # 0 /\ lastOp.op # "stopLoop")
    /\ (rafId = 0 /\ rafId' # 0) => lastOp'.op = "startLoop"

\* C15: startLoop on a running loop requests no second frame callback and
\* keeps the clock origin; at most one frame callback is pending in every
\* reachable state; after stopLoop no frame callback runs until startLoop.
C15_OneLoopAtMost ==
    /\ []OnePending
    /\ [][StartLoopIsIdempotent]_vars
    /\ [][NoFrameAfterStopLoop]_vars

\* startLoop was called on a loop that had been running since an earlier time.
C15_Witness ==
    /\ lastOp.op = "startLoop"
    /\ rafId # 0 /\ rafQueue = {rafId}
    /\ startTime # now

\* C16: resize(w, h) on an initialised engine sets the surface to (w, h) and
\* issues one viewport call with (w, h), and leaves the program, the stages,
\* the last known source, the custom uniforms, the built-in bindings, the
\* pointer and the loop as they were; on an engine that is not initialised or
\* was destroyed it changes nothing and issues no call.
C16_ResizeSetsSurfaceOnly ==
    [][lastOp'.op = "resize" =>
        IF gl /\ canvas
        THEN /\ canvasSize' = lastOp'.arg
             /\ gpuLog' = << <<"viewport", NoHandle, "", lastOp'.arg>> >>
             /\ UNCHANGED <<program, vertexShader, fragmentShader, vao,
                            lastFragmentSource, customUniforms, uTime, uResolution,
                            uMouse, mousePos, rafId, rafQueue, startTime, handles>>
        ELSE /\ gpuLog' = <<>>
             /\ UNCHANGED <<engineVars, canvasSize, handles, rafQueue>>]_vars

\* resize changed the surface of an engine that has a program and a custom
\* uniform.
C16_Witness ==
    /\ lastOp.op = "resize"
    /\ gl /\ program # NoHandle /\ DOMAIN customUniforms # {}
    /\ lastOp.arg = <<2, 1>> /\ canvasSize = <<2, 1>>
    /\ gpuLog # <<>>

\* C17: once init has failed, it has returned false, no listener is
\* registered, no vertex array or other object was created, no call reaches
\* a context (so every renderFrame is a no-op), compile returns success=false
\* with a line-0 diagnostic, and the engine never acquires a context.
C17_FailedInitStaysFailed ==
    /\ [](lifecycle = "failed" =>
            /\ ~gl /\ ~canvas /\ ~listeners
            /\ vao = NoHandle /\ program = NoHandle
            /\ \A h \in Handles : handles[h].state = "free"
            /\ gpuLog = <<>>
            /\ lastOp.op = "init" => ~lastOp.success
            /\ lastOp.op = "compile" =>
                  /\ ~lastOp.success
                  /\ \E i \in 1..Len(lastOp.errors) : lastOp.errors[i].line = 0)
    /\ [][lifecycle = "failed" => ~gl']_vars

\* compile was refused by an engine whose init had failed.
C17_Witness ==
    /\ lifecycle = "failed"
    /\ lastOp.op = "compile" /\ ~lastOp.success
    /\ lastOp.errors = NotInitialised

Bound(location) == location # NoLocation

\* The engine after a successful compile of source: its program is linked
\* from source, source is the last known source, and a binding is resolved
\* exactly when the source uses its name.
BuiltFrom(source, prog, time, resolution, mouse, customs, last) ==
    /\ prog # NoHandle
    /\ handles'[prog].state = "live" /\ handles'[prog].status = "linked"
    /\ handles'[prog].src = source
    /\ last = source
    /\ Bound(time) <=> "u_time" \in ActiveUniforms(source)
    /\ Bound(resolution) <=> "u_resolution" \in ActiveUniforms(source)
    /\ Bound(mouse) <=> "u_mouse" \in ActiveUniforms(source)
    /\ \A n \in DOMAIN customs : Bound(customs[n].location) <=> n \in ActiveUniforms(source)

\* C18: a compile that follows at once a successful compile of the same
\* source returns success with no diagnostics, as the first did, and leaves
\* what the first left: a program linked from that source, each binding
\* resolved or not as it was, the same custom values, the same last known
\* source.
C18_CompileTwiceIsCompileOnce ==
    [][(/\ lastOp.op = "compile" /\ lastOp.success
        /\ lastOp'.op = "compile" /\ lastOp'.arg = lastOp.arg) =>
          /\ lastOp.errors = <<>>
          /\ lastOp'.success /\ lastOp'.errors = <<>>
          /\ BuiltFrom(lastOp.arg, program', uTime', uResolution', uMouse',
                       customUniforms', lastFragmentSource')
          /\ lastFragmentSource = lastOp.arg
          /\ Bound(uTime') <=> Bound(uTime)
          /\ Bound(uResolution') <=> Bound(uResolution)
          /\ Bound(uMouse') <=> Bound(uMouse)
          /\ DOMAIN customUniforms' = DOMAIN customUniforms
          /\ \A n \in DOMAIN customUniforms :
                /\ customUniforms'[n].value = customUniforms[n].value
                /\ Bound(customUniforms'[n].location) <=> Bound(customUniforms[n].location)
          /\ UNCHANGED <<rafId, rafQueue, startTime, mousePos, canvasSize, vao,
                         contextLost, listeners>>]_vars

\* A successful compile of source "A" replaced the program of an earlier
\* successful compile, on an engine holding a custom uniform the source uses
\* and one it does not.
C18_Witness ==
    /\ lastOp.op = "compile" /\ lastOp.success /\ lastOp.arg = "A"
    /\ HasCall(gpuLog, "deleteProgram", program) = FALSE
    /\ IssuesCall(gpuLog, "deleteProgram")
    /\ lastGoodSource = "A"
    /\ DOMAIN customUniforms = {"u_a", "u_b"}
    /\ Bound(customUniforms["u_a"].location)
    /\ ~Bound(customUniforms["u_b"].location)

\* The lines of a log that hold something other than whitespace.
NonBlank(log) == SelectSeq(log, LAMBDA l : \E i \in 1..Len(l) : ~IsSpace(l[i]))

\* A non-blank line without the whitespace around it.
Stripped(l) ==
    LET ink == {i \in 1..Len(l) : ~IsSpace(l[i])}
    IN  SubSeq(l, CHOOSE i \in ink : \A k \in ink : i <= k,
                  CHOOSE i \in ink : \A k \in ink : i >= k)

\* The ways to read t as SEVERITY ":" whitespace INDEX ":" LINE ":" whitespace
\* message: INDEX runs from a to the colon at b, LINE from there to the colon
\* at c, and the message starts at d.  INDEX is "0", or any number if anyIndex.
IndexStarts(t) ==
    {a \in 3..Len(t) : IsDigit(t[a]) /\ \A i \in 3..(a - 1) : IsSpace(t[i])}
IndexEnds(t, a, anyIndex) ==
    {b \in (a + 1)..Len(t) :
        /\ t[b] = ":" /\ \A i \in a..(b - 1) : IsDigit(t[i])
        /\ anyIndex \/ SubSeq(t, a, b - 1) = <<"0">>}
LineEnds(t, b) ==
    {c \in (b + 2)..Len(t) : t[c] = ":" /\ \A i \in (b + 1)..(c - 1) : IsDigit(t[i])}
MessageStarts(t, c) ==
    {d \in (c + 1)..Len(t) : ~IsSpace(t[d]) /\ \A i \in (c + 1)..(d - 1) : IsSpace(t[i])}

Readings(t, anyIndex) ==
    IF Len(t) >= 2 /\ IsSeverity(t[1]) /\ t[2] = ":"
    THEN UNION { UNION { UNION {
            {[line |-> parseInt(SubSeq(t, b + 1, c - 1)), message |-> SubSeq(t, d, Len(t))] :
                d \in MessageStarts(t, c)} :
            c \in LineEnds(t, b)} :
            b \in IndexEnds(t, a, anyIndex)} :
            a \in IndexStarts(t)}
    ELSE {}

\* The diagnostic of one non-blank line: its reading if it has one, and
\* otherwise line 0 with the whole stripped line.
DiagnosticOf(l, anyIndex) ==
    IF Readings(Stripped(l), anyIndex) = {}
    THEN [line |-> 0, message |-> Stripped(l)]
    ELSE CHOOSE e \in Readings(Stripped(l), anyIndex) : TRUE

ParsedAs(anyIndex) ==
    lastOp.op = "parseInfoLog" =>
        /\ lastOp.success
        /\ Len(lastOp.errors) = Len(NonBlank(lastOp.arg))
        /\ \A i \in 1..Len(lastOp.errors) :
              lastOp.errors[i] = DiagnosticOf(NonBlank(lastOp.arg)[i], anyIndex)

\* C19 as stated: parseInfoLog returns one diagnostic per non-blank line, in
\* order; a line SEVERITY: 0:LINE: message, with source index 0, gives
\* {LINE, message trimmed}, and every other non-blank line gives line 0 and
\* the whole trimmed line.
C19_OneDiagnosticPerLineIndexZero == ParsedAs(FALSE)

\* C19: parseInfoLog returns one diagnostic per non-blank line, in order; a
\* line SEVERITY: INDEX:LINE: message, with any number as source index, gives
\* {LINE, message trimmed}, and every other non-blank line gives line 0 and
\* the whole trimmed line.
C19_OneDiagnosticPerLine == ParsedAs(TRUE)

\* A log of a blank line and a warning about line 12 of source string 1 was
\* parsed into one diagnostic.
C19_Witness ==
    /\ lastOp.op = "parseInfoLog"
    /\ Len(lastOp.arg) = 2 /\ lastOp.arg[1] = <<" ", "\t">>
    /\ lastOp.arg[2] = <<"warning", ":", " ", "1", ":", "1", "2", ":", " ", "x", " ", "y">>
    /\ lastOp.errors = <<[line |-> 12, message |-> <<"x", " ", "y">>]>>

InfoLogCalls == {"getShaderInfoLog", "getProgramInfoLog"}

\* C20: a successful compile returns no diagnostics; a compile in which a
\* stage or the link was rejected returns the diagnostics parsed from the log
\* the driver gave for it, as parsed; and a fragment source rejected with
\* "ERROR: 0:2: 'float' : precision qualifier required" returns
\* success=false and the one diagnostic {2, "'float' : precision qualifier
\* required"}.
C20_CompileReturnsParsedDiagnostics ==
    lastOp.op = "compile" =>
        /\ lastOp.success => lastOp.errors = <<>>
        /\ \A i \in 1..Len(gpuLog) :
              gpuLog[i][1] \in InfoLogCalls =>
                  /\ ~lastOp.success
                  /\ lastOp.errors = parseInfoLog(gpuLog[i][4])
        /\ (lastOp.arg = "E" /\ IssuesCall(gpuLog, "getShaderInfoLog")) =>
              /\ ~lastOp.success
              /\ lastOp.errors =
                    <<[line |-> 2,
                       message |-> <<"'float'", " ", ":", " ",
                                     "precision qualifier required">>]>>

\* The driver rejected a fragment source over its line 2 and compile returned
\* one diagnostic for line 2.
C20_Witness ==
    /\ lastOp.op = "compile" /\ lastOp.arg = "E" /\ ~lastOp.success
    /\ \E i \in 1..Len(gpuLog) :
          /\ gpuLog[i][1] = "getShaderInfoLog"
          /\ gpuLog[i][4] = DriverLog("E")
    /\ Len(lastOp.errors) = 1 /\ lastOp.errors[1].line = 2

CreateCalls == {"createShader", "createProgram"}

\* The call that follows create call i when it returned an object.
FirstUse(call) == IF call = "createShader" THEN "shaderSource" ELSE "attachShader"

\* Create call i of log returned null: the code issued no call on its result.
ReturnedNull(log, i) ==
    /\ log[i][1] \in CreateCalls
    /\ i = Len(log) \/ log[i + 1][1] # FirstUse(log[i][1])

\* A stage or program object could not be allocated during the call.
AllocationFailed(log) == \E i \in 1..Len(log) : ReturnedNull(log, i)

\* The objects the calls of log created.
CreatedBy(log, hs) ==
    {h \in Handles : hs[h].state = "free" /\ \E i \in 1..Len(log) :
        /\ log[i][1] \in {"shaderSource", "attachShader", "linkProgram"}
        /\ log[i][2] = h}

\* C21: a compile during which a stage object or the program object could
\* not be allocated returns success=false with exactly one diagnostic, of
\* line 0; every stage it created in that attempt is deleted and none stays
\* alive; and the program, the stages and the bindings the engine held stay
\* as they were.
C21_AllocationFailureIsOneDiagnostic ==
    [][(lastOp'.op = "compile" /\ AllocationFailed(gpuLog')) =>
          /\ ~lastOp'.success
          /\ Len(lastOp'.errors) = 1 /\ lastOp'.errors[1].line = 0
          /\ \A h \in CreatedBy(gpuLog', handles) :
                /\ HasCall(gpuLog', "deleteShader", h)
                /\ handles'[h].state # "live"
          /\ UNCHANGED <<program, vertexShader, fragmentShader, vao, uTime,
                         uResolution, uMouse, customUniforms>>
          /\ program # NoHandle => handles'[program] = handles[program]]_vars

\* The program object could not be allocated while a program was current:
\* the two stages of the attempt were deleted.
C21_Witness ==
    /\ lastOp.op = "compile" /\ ~lastOp.success
    /\ \E i \in 1..Len(gpuLog) :
          gpuLog[i][1] = "createProgram" /\ ReturnedNull(gpuLog, i)
    /\ \E i, j \in 1..Len(gpuLog) :
          i # j /\ gpuLog[i][1] = "deleteShader" /\ gpuLog[j][1] = "deleteShader"
    /\ program # NoHandle /\ handles[program].state = "live"
    /\ lastOp.errors = AllocError("Failed to create program object")

\* The declarations of a source that do not name a built-in, in order.
Declared(source) ==
    SelectSeq(source[1], LAMBDA p : p.decl /\ p.name \notin BUILTIN_UNIFORMS)

\* C22: parseUniforms returns one descriptor per declaration that does not
\* name a built-in, in the order of the declarations, repeated names
\* included, wherever the declarations stand (several on one line too).
C22_OneDescriptorPerDeclaration ==
    lastOp.op = "parseUniforms" =>
        /\ Len(lastOp.result) = Len(Declared(lastOp.arg))
        /\ \A k \in 1..Len(lastOp.result) :
              /\ k <= Len(Declared(lastOp.arg))
              /\ lastOp.result[k].name = Declared(lastOp.arg)[k].name
              /\ lastOp.result[k].type = Declared(lastOp.arg)[k].type

Arity(type) ==
    CASE type \in {"float", "int"} -> 1
      [] type = "vec2" -> 2
      [] type = "vec3" -> 3
      [] type = "vec4" -> 4

\* The defaults of claim C23 for a descriptor (numbers in hundredths).
HasTypeDefaults(d) ==
    /\ d.type = "float" => (d.value = <<50>> /\ d.min = 0 /\ d.max = 100 /\ d.step = 1)
    /\ d.type = "int" => (d.value = <<100>> /\ d.min = 0 /\ d.max = 1000 /\ d.step = 100)
    /\ d.type = "vec2" => (d.value = <<0, 0>> /\ d.min = -100 /\ d.max = 100)
    /\ (d.type = "vec3" /\ d.name # <<"u_", "Color">>) =>
          (d.value = <<0, 0, 0>> /\ d.min = -100 /\ d.max = 100)
    /\ (d.type = "vec3" /\ d.name = <<"u_", "Color">>) =>
          (d.value = <<100, 100, 100>> /\ d.min = 0 /\ d.max = 100)
    /\ d.type = "vec4" => (d.value = <<0, 0, 0, 100>> /\ d.min = 0 /\ d.max = 100)
    /\ Len(d.value) = Arity(d.type)

\* C23: every descriptor of a declaration without hints has the defaults of
\* its type (a vec3 named u_Color, whose lower-cased name contains "color",
\* those of a colour), and as many components as its type.
C23_DefaultsByType ==
    lastOp.op = "parseUniforms" =>
        \A k \in 1..Len(lastOp.result) : HasTypeDefaults(lastOp.result[k])

\* A vec3 named u_Color and a vec3 named u_a were discovered: the first with
\* the defaults of a colour, the second with those of a vector.
C23_Witness ==
    /\ lastOp.op = "parseUniforms" /\ Len(lastOp.result) = 2
    /\ lastOp.result[1].type = "vec3" /\ lastOp.result[1].name = <<"u_", "Color">>
    /\ lastOp.result[1].value = <<100, 100, 100>> /\ lastOp.result[1].min = 0
    /\ lastOp.result[2].type = "vec3" /\ lastOp.result[2].name = <<"u_a">>
    /\ lastOp.result[2].value = <<0, 0, 0>> /\ lastOp.result[2].min = -100

\* The hints of a kind in a list (none or one).
HintsOf(hints, kind) == {hints[i] : i \in {j \in 1..Len(hints) : hints[j].kind = kind}}

\* The integer nearest to x hundredths, halves going up.
Nearest(x) == CHOOSE n \in {100 * i : i \in -30..30} : n - 50 <= x /\ x < n + 50

\* The descriptor d of a declaration of source, seeded with seed: each field
\* is what its hint says, or the seed where there is no hint; the default
\* hint sets the leading components it supplies, each as given by Taken.
Overridden(d, source, seed, Taken(_)) ==
    /\ d.name = source.name /\ d.type = source.type
    /\ \A h \in HintsOf(source.hints, "range") :
          d.min = h.values[1].value /\ d.max = h.values[2].value
    /\ HintsOf(source.hints, "range") = {} => (d.min = seed.min /\ d.max = seed.max)
    /\ \A h \in HintsOf(source.hints, "step") : d.step = h.values[1].value
    /\ HintsOf(source.hints, "step") = {} => d.step = seed.step
    /\ Len(d.value) = Arity(source.type)
    /\ \A h \in HintsOf(source.hints, "default") :
          \A k \in 1..Len(d.value) :
              d.value[k] = IF k <= Len(h.values) THEN Taken(h.values[k].value)
                           ELSE seed.value[k]
    /\ HintsOf(source.hints, "default") = {} => d.value = seed.value

AsGiven(x) == x

\* C24 as stated: the range hint sets min and max, the step hint sets step,
\* the default hint sets the first k components of the value to the numbers
\* supplied, and every field or component without a hint keeps its seeded
\* default.
C24_HintsOverrideDefaults ==
    lastOp.op = "parseUniforms" =>
        /\ Len(lastOp.result) = 1
        /\ Overridden(lastOp.result[1], lastOp.arg,
                      getDefaults(lastOp.arg.type, lastOp.arg.name), AsGiven)

\* C24: the range hint sets min and max, the step hint sets step, the default
\* hint sets the first k components of the value to the numbers supplied (for
\* an int, to the nearest integer of the number supplied), and every field or
\* component without a hint keeps its seeded default.
C24_HintsOverrideDefaultsIntRounded ==
    lastOp.op = "parseUniforms" =>
        /\ Len(lastOp.result) = 1
        /\ Overridden(lastOp.result[1], lastOp.arg,
                      getDefaults(lastOp.arg.type, lastOp.arg.name),
                      LAMBDA x : IF lastOp.arg.type = "int" THEN Nearest(x) ELSE x)

\* uniform float u_cells; // range: 2.0, 20.0, default: 8.0, step: 1.0 was
\* parsed into value 8, min 2, max 20, step 1.
C24_Witness ==
    /\ lastOp.op = "parseUniforms" /\ lastOp.arg.type = "float"
    /\ Len(lastOp.arg.hints) = 3
    /\ lastOp.arg.hints[1].kind = "range" /\ lastOp.arg.hints[2].kind = "default"
    /\ lastOp.arg.hints[3].kind = "step"
    /\ lastOp.result = <<[name |-> <<"u_cells">>, type |-> "float", value |-> <<800>>,
                          min |-> 200, max |-> 2000, step |-> 100]>>

\* The same hints in every order.
Reorderings(hints) ==
    {[i \in 1..Len(hints) |-> hints[p[i]]] :
        p \in {q \in [1..Len(hints) -> 1..Len(hints)] :
                  \A i, j \in 1..Len(hints) : i # j => q[i] # q[j]}}

\* The field of a descriptor that a kind of hint is about.
FieldOf(d, kind) ==
    CASE kind = "range" -> <<d.min, d.max>>
      [] kind = "default" -> d.value
      [] kind = "step" -> <<d.step>>

\* The descriptor parseUniforms gives for the declaration with these hints.
DescriptorWith(source, hints) ==
    parseUniforms(HintedText(source.type, source.name, hints))[1]

\* C25: the descriptor of a declaration is the same for every order of its
\* hints; each hint does to its field what it does when it is the only hint;
\* and a field without a hint is what it is when there is no hint at all.
C25_HintsAreIndependent ==
    lastOp.op = "parseUniforms" =>
        /\ \A hints \in Reorderings(lastOp.arg.hints) :
              DescriptorWith(lastOp.arg, hints) = lastOp.result[1]
        /\ \A i \in 1..Len(lastOp.arg.hints) :
              FieldOf(lastOp.result[1], lastOp.arg.hints[i].kind)
                  = FieldOf(DescriptorWith(lastOp.arg, <<lastOp.arg.hints[i]>>),
                            lastOp.arg.hints[i].kind)
        /\ \A kind \in HintKinds :
              HintsOf(lastOp.arg.hints, kind) = {} =>
                  FieldOf(lastOp.result[1], kind)
                      = FieldOf(DescriptorWith(lastOp.arg, <<>>), kind)

\* uniform vec2 u_cells; // step: 0.25, default: -0.5, 0.0, range: -2.0, 2.0
\* was parsed: the three hints, the range last, all took effect.
C25_Witness ==
    /\ lastOp.op = "parseUniforms" /\ lastOp.arg.type = "vec2"
    /\ Len(lastOp.arg.hints) = 3
    /\ lastOp.arg.hints[1].kind = "step" /\ lastOp.arg.hints[2].kind = "default"
    /\ lastOp.arg.hints[3].kind = "range"
    /\ lastOp.result[1].value = <<-50, 0>> /\ lastOp.result[1].step = 25
    /\ lastOp.result[1].min = -200 /\ lastOp.result[1].max = 200

(***************************************************************************)
(* captureThumbnail(code): a temporary engine on an offscreen canvas of    *)
(* SIZE x SIZE pixels.  The call is synchronous, so no event handler runs  *)
(* inside it; the device may still lose its context between two calls.     *)
(***************************************************************************)
\* `const SIZE = 128`.
SIZE == 128

\* What canvas.toDataURL('image/png') returns when it does not throw.
PngUrl == "data:image/png"

\* The call moves to pc, having made the call lastOp' records.
Moved(pc) == [capture EXCEPT !.pc = pc, !.calls = Append(@, lastOp')]

\* `return value`, after the call lastOp' records.
Returned(value) ==
    [capture EXCEPT !.pc = "returned", !.calls = Append(@, lastOp'), !.result = value]

\* captureThumbnail that renders whatever compile returned.
AfterCompile_AlwaysRenders(success) == "render"

\* `if (!compileResult.success) { renderer.destroy(); return null; }`
AfterCompile(success) == IF success THEN "render" ELSE "cleanup"

\* The canvas is created and sized, the engine constructed.
CaptureThumbnail(code) ==
    /\ capture.pc = "idle"
    /\ lifecycle = "new"
    /\ capture' = [NoCapture EXCEPT !.pc = "init", !.code = code]
    /\ UNCHANGED <<bridgeVars, appVars, dialog, store>>
    /\ canvasSize' = <<SIZE, SIZE>>
    /\ UNCHANGED engineVars
    /\ UNCHANGED <<lostEventPending, canRestore, rafQueue, now>>
    /\ UNCHANGED <<lifecycle, lastGoodSource, everLost>>
    /\ Finish(G0, Op("captureThumbnail", code, TRUE, <<>>), CurRefs)

\* `const ok = renderer.init(canvas, { preserveDrawingBuffer: true })`
CaptureInit ==
    /\ capture.pc = "init"
    /\ Call_init
    /\ capture' = Moved("compile")
    /\ UNCHANGED <<bridgeVars, appVars, dialog, store>>

\* `if (!ok) return null`
CaptureInitFails ==
    /\ capture.pc = "init"
    /\ Call_initFails
    /\ capture' = Returned(NoUrl)
    /\ UNCHANGED <<bridgeVars, appVars, dialog, store>>

\* `const compileResult = renderer.compile(code)`
CaptureCompile(fault) ==
    /\ capture.pc = "compile"
    /\ Call_compile(capture.code, fault)
    /\ capture' = Moved(AfterCompile(lastOp'.success))
    /\ UNCHANGED <<bridgeVars, appVars, dialog, store>>

\* `renderer.render(1.0, [SIZE, SIZE], [0, 0])`
CaptureRender ==
    /\ capture.pc = "render"
    /\ Call_render(1, <<SIZE, SIZE>>, <<0, 0>>)
    /\ capture' = Moved("export")
    /\ UNCHANGED <<bridgeVars, appVars, dialog, store>>

\* `try { dataUrl = canvas.toDataURL('image/png') } catch { dataUrl = null }`
CaptureExport(throws) ==
    /\ capture.pc = "export"
    /\ UNCHANGED engineVars
    /\ UNCHANGED <<canvasSize, lostEventPending, canRestore, rafQueue, now>>
    /\ UNCHANGED <<lifecycle, lastGoodSource, everLost>>
    /\ Finish(G0, Op("toDataURL", "image/png", ~throws, <<>>), CurRefs)
    /\ capture' = [Moved("destroy") EXCEPT !.dataUrl = IF throws THEN NoUrl ELSE PngUrl]
    /\ UNCHANGED <<bridgeVars, appVars, dialog, store>>

\* `renderer.destroy(); return null` and `renderer.destroy(); return dataUrl`
CaptureDestroy ==
    /\ capture.pc \in {"cleanup", "destroy"}
    /\ Call_destroy
    /\ capture' = Returned(IF capture.pc = "cleanup" THEN NoUrl ELSE capture.dataUrl)
    /\ UNCHANGED <<bridgeVars, appVars, dialog, store>>

NextThumbnail ==
    \/ \E code \in Sources : CaptureThumbnail(code)
    \/ CaptureInit
    \/ CaptureInitFails
    \/ \E fault \in EnvFaults : CaptureCompile(fault)
    \/ CaptureRender
    \/ \E throws \in BOOLEAN : CaptureExport(throws)
    \/ CaptureDestroy
    \/ DeviceLoss

SpecThumbnail == Init /\ [][NextThumbnail]_vars

\* The names of the calls captureThumbnail has made, in order.
CallNames == [i \in 1..Len(capture.calls) |-> capture.calls[i].op]

\* C26: a call of captureThumbnail that has returned made one of three
\* sequences of calls.  init failed: nothing else was called and null was
\* returned.  compile failed: compile was called once, on the code given,
\* nothing was rendered, the engine was destroyed once and null was returned.
\* compile succeeded: one frame was rendered, at time 1.0 on the whole
\* surface, before the export, the engine was destroyed once after it, and
\* the exported URL (null when the export threw) was returned.  Whenever init
\* succeeded no object of the device is left live.
C26_ThumbnailCompilesRendersDestroysOnce ==
    capture.pc = "returned" =>
        LET calls == capture.calls
        IN  /\ CallNames \in {<<"init">>, <<"init", "compile", "destroy">>,
                              <<"init", "compile", "render", "toDataURL", "destroy">>}
            /\ (Len(calls) = 1) = ~calls[1].success
            /\ Len(calls) = 1 => capture.result = NoUrl
            /\ Len(calls) > 1 =>
                /\ calls[2].arg = capture.code
                /\ (Len(calls) = 3) = ~calls[2].success
                /\ \A h \in Handles : handles[h].state # "live"
                /\ ~gl /\ program = NoHandle /\ vao = NoHandle
            /\ Len(calls) = 3 => capture.result = NoUrl
            /\ Len(calls) = 5 =>
                /\ calls[3].arg = <<1, <<SIZE, SIZE>>, <<0, 0>>>>
                /\ capture.result = (IF calls[4].success THEN PngUrl ELSE NoUrl)

\* A capture that compiled, rendered, exported and returned the image.
C26_Witness ==
    /\ capture.pc = "returned"
    /\ Len(capture.calls) = 5
    /\ capture.result = PngUrl

(***************************************************************************)
(* The MCP bridge: an in-memory queue of generation requests, served to    *)
(* the web app over HTTP and to the generating agent over MCP tools.  A     *)
(* string is the sequence of its tokens; each handler runs to completion    *)
(* once it has its request body.                                            *)
(***************************************************************************)
MaxRequests == 1
MaxStreams == 1

\* The ids randomUUID() hands out.
RequestIds == 1..MaxRequests

\* The request ids a submit may carry: the ids handed out, an id that was
\* never handed out and, for a body without requestId, none.
NoRequestId == 0
UnknownRequestId == MaxRequests + 1
SubmitIds == RequestIds \cup {UnknownRequestId}

\* A property the body or the record does not have.
Undefined == <<"<undefined>">>

\* `if (name)`, `!code`: an optional string that is there and not empty.
Present(s) == s # Undefined /\ s # <<>>

\* What the bodies of POST /api/request carry.
Prompts == {Undefined, <<>>, <<" ">>, <<"p", " ">>}
RequestNames == {Undefined, <<" ", "n0">>}

\* What a submit carries: code and no name, another code and a name, no code.
Submits == { [code |-> <<"c1">>, name |-> Undefined],
             [code |-> <<"c2">>, name |-> <<"n1">>],
             [code |-> <<>>, name |-> Undefined] }

\* `body.name?.trim() || undefined`
TrimmedOrUndefined(s) == IF s # Undefined /\ Trim(s) # <<>> THEN Trim(s) ELSE Undefined

\* randomUUID(): an id no request has yet.
NewRequestId ==
    CHOOSE id \in RequestIds \ DOMAIN requests :
        \A k \in RequestIds \ DOMAIN requests : id <= k

\* Map.prototype.delete
WithoutKey(map, key) == [k \in DOMAIN map \ {key} |-> map[k]]

\* `[...requests.values()].filter(r => r.status === 'pending')`
PendingRequests ==
    LET ids == SelectSeq([i \in 1..MaxRequests |-> i],
                         LAMBDA i : i \in DOMAIN requests /\ requests[i].status = "pending")
    IN  [k \in 1..Len(ids) |-> requests[ids[k]]]

\* The events written on a stream, and the bodies GET /api/result answers.
PendingStatus == [status |-> "pending", code |-> Undefined, name |-> Undefined]
ErrorStatus == [status |-> "error", code |-> Undefined, name |-> Undefined]
CompletedStatus(req) == [status |-> "completed", code |-> req.code, name |-> req.name]

\* A handler returned: the request or stream it was about and what it answered.
Served(name, arg, result) ==
    /\ UNCHANGED <<engineVars, hostVars, capture, appVars, dialog, store>>
    /\ UNCHANGED <<lifecycle, gpuLog, lastGoodSource, everLost, relTwice, relStale,
                   atLoss>>
    /\ lastOp' = Applied(name, arg, result)

\* A submit check that lets a completed request be submitted again.
CanSubmit_Always(req) == TRUE

\* `if (req.status !== 'pending')` of the two submit handlers.
CanSubmit(req) == req.status = "pending"

\* What a submit for requestId meets.
SubmitOutcome(requestId) ==
    IF requestId \notin DOMAIN requests THEN "not found"
    ELSE IF ~CanSubmit(requests[requestId]) THEN "already completed"
    ELSE "ok"

\* `req.status = 'completed'; req.code = code; if (name) req.name = name;`
Completed(req, code, name) ==
    [req EXCEPT !.status = "completed", !.code = code,
                !.name = IF Present(name) THEN name ELSE @]

\* notifyListeners that leaves the listeners registered.
notifyListeners_KeepsListeners(requestId, req) ==
    [streams |->
        [s \in DOMAIN streams |->
            IF requestId \in DOMAIN sseListeners /\ s \in sseListeners[requestId]
            THEN [streams[s] EXCEPT !.events = Append(@, CompletedStatus(req)),
                                    !.ended = TRUE]
            ELSE streams[s]],
     sseListeners |-> sseListeners]

\* notifyListeners(requestId, req): each listener writes the completed event
\* and ends its response; the listeners of the request are dropped.
notifyListeners(requestId, req) ==
    [streams |->
        [s \in DOMAIN streams |->
            IF requestId \in DOMAIN sseListeners /\ s \in sseListeners[requestId]
            THEN [streams[s] EXCEPT !.events = Append(@, CompletedStatus(req)),
                                    !.ended = TRUE]
            ELSE streams[s]],
     sseListeners |-> WithoutKey(sseListeners, requestId)]

\* The assignments of a submit that found its request pending.
Submitted(requestId, code, name, req) ==
    /\ requests' = WithEntry(requests, requestId, req)
    /\ streams' = notifyListeners(requestId, req).streams
    /\ sseListeners' = notifyListeners(requestId, req).sseListeners
    /\ accepted' = WithEntry(accepted, requestId,
                             [code |-> code, name |-> name,
                              named |-> requests[requestId].name])

\* The inputs the MCP tool submit_shader accepts: its schema wants a string
\* for the id and a string, possibly empty, for the code.
ToolAccepts(requestId, code, name) == SubmitOutcome(requestId) = "ok"

\* The inputs POST /api/submit accepts.
HttpAccepts(requestId, code, name) ==
    Present(code) /\ requestId # NoRequestId /\ SubmitOutcome(requestId) = "ok"

\* The MCP tool submit_shader.
submit_shader(requestId, code, name) ==
    /\ IF ToolAccepts(requestId, code, name)
       THEN Submitted(requestId, code, name, Completed(requests[requestId], code, name))
       ELSE UNCHANGED bridgeVars
    /\ Served("submit_shader", requestId,
              [isError |-> SubmitOutcome(requestId) # "ok",
               text |-> SubmitOutcome(requestId)])

\* The MCP tool get_pending_requests.
get_pending_requests ==
    /\ UNCHANGED bridgeVars
    /\ Served("get_pending_requests", 0,
              [isError |-> FALSE,
               text |-> IF PendingRequests = <<>> THEN "No pending requests." ELSE "json",
               pending |-> PendingRequests])

\* A check of the prompt that rejects only a body without a prompt.
PromptMissing_OnlyAbsent(prompt) == prompt = Undefined

\* `const prompt = body.prompt?.trim(); if (!prompt)`
PromptMissing(prompt) == prompt = Undefined \/ Trim(prompt) = <<>>

\* POST /api/request with a body JSON.parse throws on.
PostRequestUnparsable ==
    /\ UNCHANGED bridgeVars
    /\ Served("POST /api/request", 0, [status |-> 400, error |-> "Invalid JSON body"])

\* POST /api/submit with a body JSON.parse throws on.
PostSubmitUnparsable ==
    /\ UNCHANGED bridgeVars
    /\ Served("POST /api/submit", 0, [status |-> 400, error |-> "Invalid JSON body"])

\* POST /api/request
PostRequest(prompt, name) ==
    IF PromptMissing(prompt)
    THEN /\ UNCHANGED bridgeVars
         /\ Served("POST /api/request", 0,
                   [status |-> 400, error |-> "prompt is required"])
    ELSE /\ RequestIds \ DOMAIN requests # {}
         /\ requests' = WithEntry(requests, NewRequestId,
                                  [id |-> NewRequestId, prompt |-> Trim(prompt),
                                   name |-> TrimmedOrUndefined(name),
                                   status |-> "pending", code |-> Undefined])
         /\ UNCHANGED <<sseListeners, streams, accepted>>
         /\ Served("POST /api/request", 0,
                   [status |-> 201, id |-> NewRequestId])

\* POST /api/submit
PostSubmit(requestId, code, name) ==
    /\ IF HttpAccepts(requestId, code, name)
       THEN Submitted(requestId, code, name, Completed(requests[requestId], code, name))
       ELSE UNCHANGED bridgeVars
    /\ Served("POST /api/submit", requestId,
              IF ~Present(code) \/ requestId = NoRequestId
              THEN [status |-> 400, error |-> "requestId and code are required"]
              ELSE IF SubmitOutcome(requestId) = "not found"
              THEN [status |-> 404, error |-> "Request not found"]
              ELSE IF SubmitOutcome(requestId) = "already completed"
              THEN [status |-> 400, error |-> "Request already completed"]
              ELSE [status |-> 200, error |-> ""])

\* GET /api/pending
GetPending ==
    /\ UNCHANGED bridgeVars
    /\ Served("GET /api/pending", 0, [status |-> 200, pending |-> PendingRequests])

\* What GET /api/stream/:id writes at once, and whether it ends the response.
StreamOpened(id) ==
    IF id \notin DOMAIN requests
    THEN [id |-> id, events |-> <<ErrorStatus>>, ended |-> TRUE, closed |-> FALSE]
    ELSE IF requests[id].status = "completed"
    THEN [id |-> id, events |-> <<CompletedStatus(requests[id])>>, ended |-> TRUE,
          closed |-> FALSE]
    ELSE [id |-> id, events |-> <<PendingStatus>>, ended |-> FALSE, closed |-> FALSE]

\* GET /api/stream/:id
GetStream(id) ==
    /\ Len(streams) < MaxStreams
    /\ streams' = Append(streams, StreamOpened(id))
    /\ sseListeners' =
        IF StreamOpened(id).ended THEN sseListeners
        ELSE WithEntry(sseListeners, id,
                       (IF id \in DOMAIN sseListeners THEN sseListeners[id] ELSE {})
                           \cup {Len(streams) + 1})
    /\ UNCHANGED <<requests, accepted>>
    /\ Served("GET /api/stream", id, StreamOpened(id))

\* The listeners left when stream s of request id has gone.
ListenersWithout(id, s) ==
    IF id \notin DOMAIN sseListeners THEN sseListeners
    ELSE IF sseListeners[id] \ {s} = {} THEN WithoutKey(sseListeners, id)
    ELSE WithEntry(sseListeners, id, sseListeners[id] \ {s})

\* The connection of stream s closes: `req.on('close', ...)` of a stream
\* that was left open.
StreamClosed(s) ==
    /\ s \in DOMAIN streams
    /\ ~streams[s].closed
    /\ streams' = [streams EXCEPT ![s].closed = TRUE]
    /\ sseListeners' =
        IF streams[s].events[1] = PendingStatus
        THEN ListenersWithout(streams[s].id, s)
        ELSE sseListeners
    /\ UNCHANGED <<requests, accepted>>
    /\ Served("close", s, PendingStatus)

\* GET /api/result/:id
GetResult(id) ==
    /\ UNCHANGED bridgeVars
    /\ Served("GET /api/result", id,
              IF id \notin DOMAIN requests
              THEN [status |-> 404, body |-> ErrorStatus]
              ELSE IF requests[id].status = "pending"
              THEN [status |-> 200, body |-> PendingStatus]
              ELSE [status |-> 200, body |-> CompletedStatus(requests[id])])

NextBridge ==
    \/ \E prompt \in Prompts, name \in RequestNames : PostRequest(prompt, name)
    \/ PostRequestUnparsable
    \/ \E id \in SubmitIds, in \in Submits : submit_shader(id, in.code, in.name)
    \/ \E id \in SubmitIds \cup {NoRequestId}, in \in Submits :
            PostSubmit(id, in.code, in.name)
    \/ PostSubmitUnparsable
    \/ get_pending_requests
    \/ GetPending
    \/ \E id \in RequestIds : GetStream(id)
    \/ \E s \in 1..MaxStreams : StreamClosed(s)
    \/ \E id \in RequestIds : GetResult(id)

SpecBridge == Init /\ [][NextBridge]_vars

\* The two ways to submit a shader.
SubmitOps == {"submit_shader", "POST /api/submit"}

\* The answers of the submit handlers.
SubmitAccepted(op) ==
    IF op.op = "submit_shader" THEN ~op.result.isError ELSE op.result.status = 200

SubmitAlreadyCompleted(op) ==
    IF op.op = "submit_shader"
    THEN op.result.isError /\ op.result.text = "already completed"
    ELSE op.result.status = 400 /\ op.result.error = "Request already completed"

\* The submit carried what its endpoint requires (POST /api/submit wants a
\* request id and a code that is not empty).
SubmitValidated(op) ==
    op.op = "submit_shader" \/ op.result.error # "requestId and code are required"

\* The ids of the requests a pending list names.
ListedIds(list) == {list[k].id : k \in 1..Len(list)}

NameOfSubmit(a) == a.name

\* The name a completed request carries: the submit's when it gave one, else
\* the one the request had.
NameKept(a) == IF Present(a.name) THEN a.name ELSE a.named

\* Stream s was opened while its request was pending.
OpenedPending(s) == streams[s].events[1] = PendingStatus

\* Result delivery, with Name(a) the name delivered for the accepted submit a.
\* GET /api/result answers pending for a request no submit was accepted for
\* and after that the completed status with the submit's code and Name; an
\* accepted submit appends that status, once, to every stream opened while
\* the request was pending and not closed since, and ends it; an ended
\* stream receives nothing more; a stream opened after the submit starts
\* with that status and is ended; and no listener is registered for a
\* request a submit was accepted for.
ResultDelivered(Name(_)) ==
    LET Delivered(a) == [status |-> "completed", code |-> a.code, name |-> Name(a)]
    IN  /\ (lastOp'.op = "GET /api/result" /\ lastOp'.arg \in DOMAIN requests) =>
                /\ lastOp'.result.status = 200
                /\ lastOp'.result.body =
                        IF lastOp'.arg \in DOMAIN accepted
                        THEN Delivered(accepted[lastOp'.arg])
                        ELSE PendingStatus
        /\ (lastOp'.op \in SubmitOps /\ SubmitAccepted(lastOp')) =>
                \A s \in DOMAIN streams :
                    (streams[s].id = lastOp'.arg /\ OpenedPending(s) /\ ~streams[s].closed) =>
                        /\ streams'[s].events =
                                <<PendingStatus, Delivered(accepted'[lastOp'.arg])>>
                        /\ streams'[s].ended
        /\ \A s \in DOMAIN streams :
                streams[s].ended => streams'[s].events = streams[s].events
        /\ (lastOp'.op = "GET /api/stream" /\ lastOp'.arg \in DOMAIN accepted) =>
                /\ streams'[Len(streams')].events = <<Delivered(accepted[lastOp'.arg])>>
                /\ streams'[Len(streams')].ended
        /\ \A id \in DOMAIN sseListeners' : id \notin DOMAIN accepted'

\* C28 as stated: the completed status carries the code and the name of the
\* accepted submit.
C28_ResultIsTheSubmit == [][ResultDelivered(NameOfSubmit)]_vars

\* C28: the result of a request is pending until a submit is accepted and
\* from then on the completed status with that submit's code and the name the
\* request then has: the submit's name when it carried one that is not empty,
\* else the name the request was created with.  Streams opened while pending
\* and still connected get that status once and are ended, later streams get
\* it at once, and no listener stays registered for a completed request.
C28_ResultIsTheSubmitNameKept == [][ResultDelivered(NameKept)]_vars

\* A stream opened while its request was pending received the completed
\* status of a submit that carried no name, and was ended.
C28_Witness ==
    \E s \in DOMAIN streams :
        /\ Len(streams[s].events) = 2
        /\ OpenedPending(s)
        /\ streams[s].events[2].status = "completed"
        /\ streams[s].ended
        /\ streams[s].id \in DOMAIN accepted
        /\ ~Present(accepted[streams[s].id].name)
        /\ streams[s].events[2].name = accepted[streams[s].id].named

(***************************************************************************)
(* The web app: the shader store, and the canvas component that owns the   *)
(* engine.  The component's init() runs after a dynamic import; what        *)
(* follows the import is one synchronous block (init, compile, startLoop),  *)
(* so nothing else runs while canvasPc is inside it.  A store action calls  *)
(* the canvas's subscriber before it returns.                               *)
(***************************************************************************)
MaxShaders == 2
MaxTimers == 2

\* The ids generateId() hands out, and the ids setTimeout hands out.
ShaderIds == 1..MaxShaders
TimerIds == 1..MaxTimers

\* The codes a user writes.
ShaderCodes == {"A", "B"}

\* `state.shaders.find((s) => s.id === state.activeShaderId)?.code`
ActiveCode(ss, id) == IF id \in DOMAIN ss THEN ss[id] ELSE NoSource

\* No synchronous block of the canvas is under way.
CanvasIdle == canvasPc \notin {"compile", "startLoop"}

\* setTimeout: the id of the new timer.
NewTimerId(pending) ==
    CHOOSE id \in TimerIds \ DOMAIN pending : \A k \in TimerIds \ DOMAIN pending : id <= k

\* A subscriber that sets its timer without clearing the one before.
clearTimeout_Never(pending, id) == pending

\* clearTimeout(id)
clearTimeout(pending, id) == WithoutKey(pending, id)

\* The subscriber's test: there is an active shader, and it is another one
\* or has another code than before.
Recompiles(newShaders, newActive) ==
    /\ newActive \in DOMAIN newShaders
    /\ \/ newActive # activeShaderId
       \/ newShaders[newActive] # ActiveCode(shaders, activeShaderId)

\* useShaderStore.subscribe((state, prevState) => ...) of the canvas.
Subscriber(newShaders, newActive) ==
    IF rendererRef /\ Recompiles(newShaders, newActive)
    THEN /\ TimerIds \ DOMAIN clearTimeout(timers, debounceRef) # {}
         /\ debounceRef' = NewTimerId(clearTimeout(timers, debounceRef))
         /\ timers' = WithEntry(clearTimeout(timers, debounceRef),
                                NewTimerId(clearTimeout(timers, debounceRef)),
                                newShaders[newActive])
    ELSE UNCHANGED <<timers, debounceRef>>

\* A step of the app that calls no method of the engine.
AppStep(name, arg) ==
    /\ UNCHANGED <<engineVars, hostVars, capture, bridgeVars, dialog, store>>
    /\ UNCHANGED <<lifecycle, gpuLog, lastGoodSource, everLost, relTwice, relStale,
                   atLoss>>
    /\ lastOp' = Op(name, arg, TRUE, <<>>)

\* set(...) of the store: the new state, then the subscriber.
StoreSet(name, arg, newShaders, newActive) ==
    /\ CanvasIdle
    /\ shaders' = newShaders
    /\ activeShaderId' = newActive
    /\ Subscriber(newShaders, newActive)
    /\ UNCHANGED <<canvasPc, rendererRef, panelValues, prevUniformsRef>>
    /\ AppStep(name, arg)

addShader(id, code) ==
    /\ id \notin DOMAIN shaders
    /\ StoreSet("addShader", <<id, code>>, WithEntry(shaders, id, code), activeShaderId)

updateShader(id, code) ==
    /\ id \in ShaderIds
    /\ StoreSet("updateShader", <<id, code>>,
                IF id \in DOMAIN shaders THEN WithEntry(shaders, id, code) ELSE shaders,
                activeShaderId)

deleteShader(id) ==
    /\ id \in ShaderIds
    /\ StoreSet("deleteShader", <<id, "">>, WithoutKey(shaders, id),
                IF activeShaderId = id THEN NoShader ELSE activeShaderId)

setActive(id) ==
    /\ id \in ShaderIds \cup {NoShader}
    /\ StoreSet("setActive", <<id, "">>, shaders, id)

\* init() after the import: `renderer.init(canvasRef.current!)` succeeded.
CanvasInit ==
    /\ canvasPc = "importing"
    /\ Call_init
    /\ rendererRef' = TRUE
    /\ canvasPc' = IF activeShaderId \in DOMAIN shaders THEN "compile" ELSE "startLoop"
    /\ UNCHANGED <<shaders, activeShaderId, debounceRef, timers, panelValues,
                   prevUniformsRef>>
    /\ UNCHANGED <<capture, bridgeVars, dialog, store>>

\* `if (!success) { console.error(...); return; }`
CanvasInitFails ==
    /\ canvasPc = "importing"
    /\ Call_initFails
    /\ canvasPc' = "failed"
    /\ UNCHANGED <<shaders, activeShaderId, rendererRef, debounceRef, timers,
                   panelValues, prevUniformsRef>>
    /\ UNCHANGED <<capture, bridgeVars, dialog, store>>

\* `renderer.compile(activeShader.code)` of init().
CanvasCompile ==
    /\ canvasPc = "compile"
    /\ Call_compile(shaders[activeShaderId], "none")
    /\ canvasPc' = "startLoop"
    /\ UNCHANGED <<shaders, activeShaderId, rendererRef, debounceRef, timers,
                   panelValues, prevUniformsRef>>
    /\ UNCHANGED <<capture, bridgeVars, dialog, store>>

\* `renderer.startLoop()` of init().
CanvasStartLoop ==
    /\ canvasPc = "startLoop"
    /\ Call_startLoop
    /\ canvasPc' = "ready"
    /\ UNCHANGED <<shaders, activeShaderId, rendererRef, debounceRef, timers,
                   panelValues, prevUniformsRef>>
    /\ UNCHANGED <<capture, bridgeVars, dialog, store>>

\* The debounce timer t fires: `renderer.compile(activeShader.code)` on the
\* code it captured.
DebounceFires(t) ==
    /\ CanvasIdle
    /\ t \in DOMAIN timers
    /\ Call_compile(timers[t], "none")
    /\ timers' = WithoutKey(timers, t)
    /\ UNCHANGED <<shaders, activeShaderId, canvasPc, rendererRef, debounceRef,
                   panelValues, prevUniformsRef>>
    /\ UNCHANGED <<capture, bridgeVars, dialog, store>>

\* Ctrl+Enter with an engine and an active shader.
CtrlEnter ==
    /\ CanvasIdle
    /\ rendererRef
    /\ activeShaderId \in DOMAIN shaders
    /\ Call_compile(shaders[activeShaderId], "none")
    /\ UNCHANGED callerVars

NextCanvas ==
    \/ \E id \in ShaderIds, code \in ShaderCodes : addShader(id, code)
    \/ \E id \in ShaderIds, code \in ShaderCodes : updateShader(id, code)
    \/ \E id \in ShaderIds : deleteShader(id)
    \/ \E id \in ShaderIds \cup {NoShader} : setActive(id)
    \/ CanvasInit
    \/ CanvasInitFails
    \/ CanvasCompile
    \/ CanvasStartLoop
    \/ \E t \in TimerIds : DebounceFires(t)
    \/ CtrlEnter

SpecCanvas == Init /\ [][NextCanvas]_vars

\* The step changed the selection or the code of the active shader.
ActiveChanged ==
    \/ activeShaderId' # activeShaderId
    \/ ActiveCode(shaders', activeShaderId') # ActiveCode(shaders, activeShaderId)

\* The one compile pending after the step is for the active shader's code.
OnePendingForActive ==
    /\ DOMAIN timers' = {debounceRef'}
    /\ timers'[debounceRef'] = shaders'[activeShaderId']

\* The debounce, as far as it does not depend on what a change that leaves
\* no shader selected does to the pending compile.  Once the canvas is ready,
\* a shader is selected and no compile is pending, the source last passed to
\* compile is the active shader's code; a change of the selection or of the
\* active code that leaves a shader selected replaces the pending compile by
\* one for the new code; at most one compile is pending; and a compile that
\* runs while a shader is selected is given that shader's current code.
Debounced ==
    /\ (canvasPc' = "ready" /\ activeShaderId' \in DOMAIN shaders' /\ timers' = << >>) =>
            lastFragmentSource' = shaders'[activeShaderId']
    /\ (rendererRef /\ ActiveChanged /\ activeShaderId' \in DOMAIN shaders') =>
            OnePendingForActive
    /\ Cardinality(DOMAIN timers') <= 1
    /\ (lastOp'.op = "compile" /\ activeShaderId \in DOMAIN shaders) =>
            lastOp'.arg = shaders[activeShaderId]

\* C29 as stated: every change of the selection or of the active code
\* cancels the pending compile, also one that leaves no shader selected.
C29_EveryChangeCancelsPending ==
    [][ /\ Debounced
        /\ (rendererRef /\ ActiveChanged /\ activeShaderId' \notin DOMAIN shaders') =>
                timers' = << >>
      ]_vars

\* C29: the debounce above; and a change that leaves no shader selected
\* (the selection cleared, the active shader deleted, an unknown id selected)
\* leaves the pending compile as it was, so that the code of the shader that
\* was active is still compiled when its timer fires.
C29_ChangesToAShaderCancelPending ==
    [][ /\ Debounced
        /\ (rendererRef /\ ActiveChanged /\ activeShaderId' \notin DOMAIN shaders') =>
                timers' = timers
      ]_vars

\* The timer of the last change has fired and compiled the active shader's
\* code, which is not the code compiled when the canvas was set up.
C29_Witness ==
    /\ lastOp.op = "compile"
    /\ canvasPc = "ready"
    /\ debounceRef # 0
    /\ timers = << >>
    /\ activeShaderId \in DOMAIN shaders
    /\ lastOp.arg = shaders[activeShaderId]
    /\ lastGoodSource = "B"

(***************************************************************************)
(* The uniform panel, mounted for the active shader.  Its effect runs      *)
(* right after the render that follows a store change, long before the     *)
(* canvas's 300 ms timer; the import the canvas waits for may resolve       *)
(* before or after it.  The codes a user writes declare one custom         *)
(* uniform, so the effect emits one event.                                  *)
(***************************************************************************)
\* The text of the sources "A" and "B": the uniforms their programs have.
GlslOf(code) ==
    CASE code = "A" ->
            Decl("float", <<"u_time">>) \o <<"\n">>
            \o Decl("vec2", <<"u_resolution">>) \o <<"\n">>
            \o Decl("float", <<"u_a">>) \o <<"\n", "void", " ", "main", "(", ")">>
      [] code = "B" ->
            Decl("float", <<"u_time">>) \o <<"\n">>
            \o Decl("vec2", <<"u_mouse">>) \o <<"\n">>
            \o Decl("float", <<"u_b">>) \o <<"\n", "void", " ", "main", "(", ")">>
      [] OTHER -> <<"void", " ", "main", "(", ")">>

\* `useMemo(() => parseUniforms(code), [code])` for the active shader.
PanelUniforms == parseUniforms(GlslOf(ActiveCode(shaders, activeShaderId)))

\* uniforms.map((u) => `${u.name}:${u.type}`).join(",")
UniformsKey(uniforms) == [k \in 1..Len(uniforms) |-> <<uniforms[k].name, uniforms[k].type>>]

\* A descriptor's name and value as the engine is given them.
EngineName(d) == d.name[1]
EngineValue(d) == IF d.type \in {"float", "int"} THEN Number(d.value[1]) ELSE Array(d.value)

\* `values[u.name] ?? u.value`
InitialValue(d) ==
    IF EngineName(d) \in DOMAIN panelValues THEN panelValues[EngineName(d)]
    ELSE EngineValue(d)

\* The canvas's 'uniform-change' handler:
\* `if (rendererRef.current) rendererRef.current.setCustomUniform(name, value)`
UniformChange(name, value) ==
    IF rendererRef
    THEN Call_setCustomUniform(name, value)
    ELSE AppStep("uniform-change", <<name, value>>)

\* The panel has initialised the uniforms of the code it shows.
PanelSettled == UniformsKey(PanelUniforms) = prevUniformsRef

\* The panel's effect on `uniforms`: the values are initialised and emitted.
PanelEffect ==
    /\ CanvasIdle
    /\ activeShaderId \in DOMAIN shaders
    /\ ~PanelSettled
    /\ Len(PanelUniforms) = 1
    /\ prevUniformsRef' = UniformsKey(PanelUniforms)
    /\ panelValues' = WithEntry(<< >>, EngineName(PanelUniforms[1]),
                                InitialValue(PanelUniforms[1]))
    /\ UniformChange(EngineName(PanelUniforms[1]), InitialValue(PanelUniforms[1]))
    /\ UNCHANGED <<shaders, activeShaderId, canvasPc, rendererRef, debounceRef, timers>>
    /\ UNCHANGED <<capture, bridgeVars, dialog, store>>

\* handleChange(name, value): the user moves a control of the panel.
HandleChange(value) ==
    /\ CanvasIdle
    /\ activeShaderId \in DOMAIN shaders
    /\ PanelSettled
    /\ Len(PanelUniforms) = 1
    /\ panelValues' = WithEntry(panelValues, EngineName(PanelUniforms[1]), value)
    /\ UniformChange(EngineName(PanelUniforms[1]), value)
    /\ UNCHANGED <<shaders, activeShaderId, canvasPc, rendererRef, debounceRef, timers,
                   prevUniformsRef>>
    /\ UNCHANGED <<capture, bridgeVars, dialog, store>>

\* The debounce timer fires, the panel's effect having run long before.
LateDebounceFires(t) == PanelSettled /\ DebounceFires(t)

\* The host runs a frame callback of the canvas's engine.
Frame(id) == CanvasIdle /\ Tick(id)

NextPanel ==
    \/ \E code \in ShaderCodes : addShader(1, code)
    \/ \E code \in ShaderCodes : updateShader(1, code)
    \/ setActive(1)
    \/ CanvasInit
    \/ CanvasCompile
    \/ CanvasStartLoop
    \/ \E t \in TimerIds : LateDebounceFires(t)
    \/ PanelEffect
    \/ HandleChange(Number(7))
    \/ \E id \in RafIds : Frame(id)

SpecPanel == Init /\ [][NextPanel]_vars

\* The values the engine may hold for the discovered uniform d: its
\* discovered default, or what the panel holds for it.
ProposedValues(d) ==
    {EngineValue(d)} \cup (IF EngineName(d) \in DOMAIN panelValues
                           THEN {panelValues[EngineName(d)]} ELSE {})

\* C30: when a frame has drawn with a program compiled from the active
\* shader's code and the panel has emitted for that code, the engine holds, for every custom uniform discovered in
\* that code, an entry with its discovered default or the user's latest edit.
C30_DiscoveredDefaultsReachTheEngine ==
    (/\ FrameDrawn
     /\ activeShaderId \in DOMAIN shaders
     /\ handles[program].src = shaders[activeShaderId]
     /\ PanelSettled) =>
        \A k \in 1..Len(PanelUniforms) :
            /\ EngineName(PanelUniforms[k]) \in DOMAIN customUniforms
            /\ customUniforms[EngineName(PanelUniforms[k])].value
                    \in ProposedValues(PanelUniforms[k])

(***************************************************************************)
(* The specification of the animation clock: the loop of one engine, with  *)
(* a clock that advances and the methods that must leave the clock alone.  *)
(***************************************************************************)
NextClock ==
    \/ InitEngine
    \/ Compile("A", "none")
    \/ SetCustomUniform("u_a", Number(7))
    \/ Resize(2, 1)
    \/ StartLoop
    \/ \E id \in RafIds : Tick(id)
    \/ StopLoop
    \/ AdvanceTime
    \/ DeviceLoss
    \/ ContextLostEvent
    \/ ContextRestoredEvent("none")

SpecClock == Init /\ [][NextClock]_vars

\* The step is a startLoop call that starts the loop.
LoopStarts == lastOp'.op = "startLoop" /\ rafId = 0 /\ rafId' # 0

\* The step is a frame of the loop that calls render.
FrameRuns == lastOp'.op = "tick" /\ lastOp'.success

RequestRejected == lastOp'.op = "POST /api/request" /\ lastOp'.result.status = 400
SubmitRejected ==
    \/ lastOp'.op = "submit_shader" /\ lastOp'.result.isError
    \/ lastOp'.op = "POST /api/submit" /\ lastOp'.result.status # 200

\* A prompt that is there, is not empty and has no white space around it.
ValidPrompt(prompt) == prompt # Undefined /\ prompt # <<>> /\ Trim(prompt) = prompt

\* A submit for a request id that is not in the queue is answered not-found
\* (by POST /api/submit: unless it lacks a field, which is answered first).
UnknownIdNotFound ==
    (lastOp'.op \in SubmitOps /\ lastOp'.arg \notin DOMAIN requests) =>
        IF lastOp'.op = "submit_shader"
        THEN lastOp'.result.isError /\ lastOp'.result.text = "not found"
        ELSE \/ lastOp'.result.status = 404
             \/ lastOp'.result.status = 400 /\ lastOp'.result.error # "Request already completed"

\* C32: a request that is answered with a rejection leaves the requests,
\* their statuses and codes, and the SSE listeners as they were; POST
\* /api/request answers 400 or 201, and every request it creates has a
\* prompt that is present, not empty and trimmed (so a missing, empty or
\* white-space prompt and an unparsable body create none); a submit for an
\* id that is not in the queue is answered not-found, POST /api/submit
\* without requestId answers 400, and an accepted POST /api/submit carried a
\* code that is not empty.
C32_InvalidRequestsChangeNothing ==
    [][/\ (RequestRejected \/ SubmitRejected) =>
              (requests' = requests /\ sseListeners' = sseListeners /\ streams' = streams)
       /\ lastOp'.op = "POST /api/request" => lastOp'.result.status \in {400, 201}
       /\ \A id \in DOMAIN requests' \ DOMAIN requests :
              /\ lastOp'.op = "POST /api/request" /\ lastOp'.result.status = 201
              /\ ValidPrompt(requests'[id].prompt)
       /\ UnknownIdNotFound
       /\ (lastOp'.op = "POST /api/submit" /\ lastOp'.arg = NoRequestId) =>
              lastOp'.result.status = 400
       /\ (lastOp'.op = "POST /api/submit" /\ lastOp'.result.status = 200) =>
              (requests'[lastOp'.arg].code # <<>> /\ requests'[lastOp'.arg].code # Undefined)
      ]_vars

\* A submit for an unknown id was answered not-found while a request is
\* pending with a listener registered.
C32_Witness ==
    /\ lastOp.op = "submit_shader" /\ lastOp.result.isError
    /\ lastOp.result.text = "not found"
    /\ requests # << >> /\ sseListeners # << >>

(***************************************************************************)
(* The generate dialog.  A generation is one run of handleGenerate: its    *)
(* POST, the EventSource and the interval it creates, the closure's count, *)
(* the polls it has in flight and the request the bridge holds for it.     *)
(* The two refs name the generation whose EventSource or interval they     *)
(* hold, 0 when they hold none.  The bridge is seen from the client: a     *)
(* request is pending, completed, or lost when the server restarted.       *)
(***************************************************************************)
MaxGenerations == 2
MaxInFlight == 2

\* `if (count > 90)`
PollLimit == 90

\* The poll responses of a generation that are on their way: requests not
\* answered yet, and answers 'completed' and 404 not delivered yet.
NoFlying == [sent |-> 0, completed |-> 0, notfound |-> 0]
FlyingKinds == {"sent", "completed", "notfound"}

\* handleGenerate has sent its POST.
NewGeneration ==
    [post |-> "sent", es |-> "none", interval |-> "none", count |-> 0,
     request |-> "none", flying |-> NoFlying, added |-> 0, cancelled |-> FALSE]

RECURSIVE FlyingIn(_)
FlyingIn(gens) ==
    IF gens = <<>> THEN 0
    ELSE gens[1].flying.sent + gens[1].flying.completed + gens[1].flying.notfound
         + FlyingIn(Tail(gens))

\* stopListening(): the EventSource and the interval the refs hold are
\* closed and cleared.  The count of a cleared interval is never read again.
stopListening(d) ==
    [d EXCEPT !.gens = [g \in DOMAIN d.gens |->
                           [d.gens[g] EXCEPT
                               !.es = IF g = d.eventSourceRef THEN "closed" ELSE @,
                               !.interval = IF g = d.pollRef THEN "cleared" ELSE @,
                               !.count = IF g = d.pollRef THEN 0 ELSE @]],
              !.eventSourceRef = 0,
              !.pollRef = 0]

\* resetAndClose()
resetAndClose(d) == [stopListening(d) EXCEPT !.isGenerating = FALSE, !.error = ""]

\* handleShaderReceived, as far as the dialog goes: createShader adds one
\* shader for generation g, then resetAndClose.
handleShaderReceived(d, g) == resetAndClose([d EXCEPT !.gens[g].added = @ + 1])

\* A handler that gives up: `setIsGenerating(false); setError(...)`.
GaveUp(d, message) == [d EXCEPT !.isGenerating = FALSE, !.error = message]

\* startSSEStream(requestId)
startSSEStream(d, g) == [d EXCEPT !.gens[g].es = "connecting", !.eventSourceRef = g]

\* startPollingFallback(requestId): `let count = 0; pollRef.current = setInterval(...)`
startPollingFallback(d, g) ==
    [d EXCEPT !.gens[g].interval = "set", !.gens[g].count = 0, !.pollRef = g]

\* generateId(): an id no shader has.
NewShaderId ==
    CHOOSE id \in ShaderIds \ DOMAIN shaders : \A k \in ShaderIds \ DOMAIN shaders : id <= k

\* A handler of the dialog or a step of the bridge returned; when creates,
\* the handler called createShader: addShader, then setActive of the new id.
DialogStep(name, arg, d, creates) ==
    /\ dialog' = d
    /\ UNCHANGED store
    /\ IF creates
       THEN /\ CanvasIdle
            /\ ShaderIds \ DOMAIN shaders # {}
            /\ shaders' = WithEntry(shaders, NewShaderId, "A")
            /\ activeShaderId' = NewShaderId
            /\ Subscriber(WithEntry(shaders, NewShaderId, "A"), NewShaderId)
       ELSE UNCHANGED <<shaders, activeShaderId, timers, debounceRef>>
    /\ UNCHANGED <<canvasPc, rendererRef, panelValues, prevUniformsRef>>
    /\ UNCHANGED <<engineVars, hostVars, capture, bridgeVars>>
    /\ UNCHANGED <<lifecycle, gpuLog, lastGoodSource, everLost, relTwice, relStale,
                   atLoss>>
    /\ lastOp' = Op(name, arg, creates, <<>>)

\* handleGenerate(), up to its first await.
HandleGenerate ==
    /\ ~dialog.isGenerating
    /\ Len(dialog.gens) < MaxGenerations
    /\ DialogStep("handleGenerate", <<Len(dialog.gens) + 1, 0, "">>,
                  [dialog EXCEPT !.isGenerating = TRUE, !.error = "",
                                 !.gens = Append(@, NewGeneration)],
                  FALSE)

\* The first generation of a dialog.
FirstGenerate == dialog.gens = <<>> /\ HandleGenerate

\* The POST of generation g is answered, or fails: handleGenerate goes on.
PostAnswered(g, ok) ==
    /\ g \in DOMAIN dialog.gens
    /\ dialog.gens[g].post = "sent"
    /\ DialogStep("postAnswered", <<g, 0, "">>,
                  IF ok
                  THEN startSSEStream([dialog EXCEPT !.gens[g].post = "answered",
                                                     !.gens[g].request = "pending"], g)
                  ELSE GaveUp([dialog EXCEPT !.gens[g].post = "failed"],
                              "Failed to submit request"),
                  FALSE)

\* The agent submits a shader for the request of generation g.
AgentSubmits(g) ==
    /\ g \in DOMAIN dialog.gens
    /\ dialog.gens[g].request = "pending"
    /\ DialogStep("agentSubmits", <<g, 0, "">>,
                  [dialog EXCEPT !.gens[g].request = "completed"], FALSE)

\* The MCP server restarts: its Map of requests starts empty.
ServerRestarts ==
    /\ \E g \in DOMAIN dialog.gens : dialog.gens[g].request \in {"pending", "completed"}
    /\ DialogStep("serverRestarts", <<0, 0, "">>,
                  [dialog EXCEPT !.gens =
                      [g \in DOMAIN dialog.gens |->
                          [dialog.gens[g] EXCEPT
                              !.request = IF @ = "none" THEN @ ELSE "lost"]]],
                  FALSE)

\* es.onmessage: what the stream writes when it is opened, and the event
\* notifyListeners writes.
SseMessage(g) ==
    /\ g \in DOMAIN dialog.gens
    /\ dialog.gens[g].es \in {"connecting", "open"}
    /\ \/ /\ dialog.gens[g].request = "completed"
          /\ DialogStep("sseMessage", <<g, 0, "">>,
                        handleShaderReceived([dialog EXCEPT !.gens[g].es = "closed",
                                                            !.eventSourceRef = 0], g),
                        TRUE)
       \/ /\ dialog.gens[g].request = "lost" /\ dialog.gens[g].es = "connecting"
          /\ DialogStep("sseMessage", <<g, 0, "">>,
                        GaveUp([dialog EXCEPT !.gens[g].es = "closed",
                                              !.eventSourceRef = 0],
                               "Request not found."),
                        FALSE)
       \/ /\ dialog.gens[g].request = "pending" /\ dialog.gens[g].es = "connecting"
          /\ DialogStep("sseMessage", <<g, 0, "">>,
                        [dialog EXCEPT !.gens[g].es = "open"], FALSE)

\* es.onerror
SseError(g) ==
    /\ g \in DOMAIN dialog.gens
    /\ dialog.gens[g].es \in {"connecting", "open"}
    /\ DialogStep("sseError", <<g, 0, "">>,
                  startPollingFallback([dialog EXCEPT !.gens[g].es = "closed",
                                                      !.eventSourceRef = 0], g),
                  FALSE)

\* `count++`, the count beyond the limit being all the same to the test.
Counted(count) == IF count < PollLimit + 1 THEN count + 1 ELSE count

\* `if (count > 90)`
TimedOut(count) == count > PollLimit

\* The rest of the interval's callback once the poll of generation g got
\* the answer `answer`.
Polled(d, g, answer) ==
    CASE answer = "notfound" ->
            GaveUp(stopListening(d), "Request not found. The MCP server may have restarted.")
      [] answer = "completed" -> handleShaderReceived(stopListening(d), g)
      [] OTHER -> d

\* What GET /api/result/:id answers for the request of generation g.
ResultOf(g) ==
    CASE dialog.gens[g].request = "completed" -> "completed"
      [] dialog.gens[g].request = "pending" -> "pending"
      [] OTHER -> "notfound"

\* The interval of generation g fires.  The fetch, when there is one, fails
\* at once, is answered before anything else happens, or stays in flight.
PollTick(g, how) ==
    /\ g \in DOMAIN dialog.gens
    /\ dialog.gens[g].interval = "set"
    /\ IF TimedOut(Counted(dialog.gens[g].count))
       THEN /\ how = "answered"
            /\ DialogStep("pollTick", <<g, Counted(dialog.gens[g].count), "timeout">>,
                          GaveUp(stopListening([dialog EXCEPT !.gens[g].count = Counted(@)]),
                                 "Timed out waiting for shader generation."),
                          FALSE)
       ELSE CASE how = "fails" ->
                    DialogStep("pollTick", <<g, Counted(dialog.gens[g].count), "failed">>,
                               [dialog EXCEPT !.gens[g].count = Counted(@)], FALSE)
              [] how = "flies" ->
                    /\ FlyingIn(dialog.gens) < MaxInFlight
                    /\ DialogStep("pollTick", <<g, Counted(dialog.gens[g].count), "flying">>,
                                  [dialog EXCEPT !.gens[g].count = Counted(@),
                                                 !.gens[g].flying.sent = @ + 1],
                                  FALSE)
              [] OTHER ->
                    DialogStep("pollTick", <<g, Counted(dialog.gens[g].count), ResultOf(g)>>,
                               Polled([dialog EXCEPT !.gens[g].count = Counted(@)], g,
                                      ResultOf(g)),
                               ResultOf(g) = "completed")

\* The bridge answers a poll of generation g that is in flight.  The answer
\* 'pending' changes nothing when it arrives.
PollAnswered(g) ==
    /\ g \in DOMAIN dialog.gens
    /\ dialog.gens[g].flying.sent > 0
    /\ DialogStep("pollAnswered", <<g, 0, "">>,
                  IF ResultOf(g) = "pending"
                  THEN [dialog EXCEPT !.gens[g].flying.sent = @ - 1]
                  ELSE [dialog EXCEPT !.gens[g].flying.sent = @ - 1,
                                      !.gens[g].flying[ResultOf(g)] = @ + 1],
                  FALSE)

\* The answer of a poll of generation g arrives: the callback goes on after
\* its awaits, whatever happened to the interval meanwhile.
PollArrives(g, answer) ==
    /\ g \in DOMAIN dialog.gens
    /\ dialog.gens[g].flying[answer] > 0
    /\ DialogStep("pollArrives", <<g, 0, answer>>,
                  Polled([dialog EXCEPT !.gens[g].flying[answer] = @ - 1], g, answer),
                  answer = "completed")

\* A poll in flight fails with a network error: `catch { }`.
PollFails(g, kind) ==
    /\ g \in DOMAIN dialog.gens
    /\ dialog.gens[g].flying[kind] > 0
    /\ DialogStep("pollFails", <<g, 0, "">>,
                  [dialog EXCEPT !.gens[g].flying[kind] = @ - 1], FALSE)

\* The Cancel button: `stopListening(); setIsGenerating(false);`.  The
\* generation cancelled is the one the dialog started last.
Cancel ==
    /\ dialog.isGenerating
    /\ DialogStep("cancel", <<Len(dialog.gens), 0, "">>,
                  [stopListening(dialog) EXCEPT
                      !.isGenerating = FALSE,
                      !.gens[Len(dialog.gens)].cancelled = TRUE],
                  FALSE)

Generations == 1..MaxGenerations

(***************************************************************************)
(* One generation of the dialog, on a network that may be slow: polls may  *)
(* be in flight while the interval fires again and while the user cancels. *)
(***************************************************************************)
NextDialog ==
    \/ FirstGenerate
    \/ \E ok \in BOOLEAN : PostAnswered(1, ok)
    \/ AgentSubmits(1)
    \/ ServerRestarts
    \/ SseMessage(1)
    \/ SseError(1)
    \/ \E how \in {"fails", "flies", "answered"} : PollTick(1, how)
    \/ PollAnswered(1)
    \/ \E answer \in {"completed", "notfound"} : PollArrives(1, answer)
    \/ \E kind \in FlyingKinds : PollFails(1, kind)
    \/ Cancel

SpecDialog == Init /\ [][NextDialog]_vars

(***************************************************************************)
(* A dialog the user may cancel and use again, with a bridge that stays up  *)
(* and answers each poll before the next event; the streams may fail.       *)
(***************************************************************************)
NextRetry ==
    \/ HandleGenerate
    \/ \E g \in Generations, ok \in BOOLEAN : PostAnswered(g, ok)
    \/ \E g \in Generations : AgentSubmits(g)
    \/ \E g \in Generations : SseMessage(g)
    \/ \E g \in Generations : SseError(g)
    \/ \E g \in Generations : PollTick(g, "answered")
    \/ Cancel

SpecRetry == Init /\ [][NextRetry]_vars

\* The step is a poll handler of generation g that found a reason to stop:
\* the count beyond the limit, a completed result or a not-found response.
PollStops(g) ==
    /\ lastOp'.op \in {"pollTick", "pollArrives"}
    /\ lastOp'.arg[1] = g
    /\ lastOp'.arg[3] \in {"timeout", "completed", "notfound"}

\* Generation g of d has its EventSource or its interval open.
Listening(d, g) == d.gens[g].es \in {"connecting", "open"} \/ d.gens[g].interval = "set"

\* C33: an SSE error starts the polling; a fetch is made by the first 90
\* ticks at most; and a poll handler that meets a completed result, a
\* not-found response or the time-out leaves the dialog out of the
\* generating state, with the interval and the EventSource of its request
\* no longer open.
C33_PollingStops ==
    [][/\ \A g \in DOMAIN dialog.gens :
            /\ (lastOp'.op = "sseError" /\ lastOp'.arg[1] = g) =>
                    dialog'.gens[g].interval = "set"
            /\ PollStops(g) => (~dialog'.isGenerating /\ ~Listening(dialog', g))
       /\ (lastOp'.op = "pollTick" /\ lastOp'.arg[3] # "timeout") =>
              lastOp'.arg[2] <= PollLimit
      ]_vars

\* C35: the shaders added to the store on behalf of one generation request
\* are one at most.
C35_OneShaderPerRequest ==
    \A g \in DOMAIN dialog.gens : dialog.gens[g].added <= 1

\* C36: no shader is added on behalf of a generation the user cancelled.
C36_CancelledRequestAddsNothing ==
    \A g \in DOMAIN dialog.gens : dialog.gens[g].cancelled => dialog.gens[g].added = 0

\* C34: while the engine holds a context and is not Lost (and the device has
\* not lost the context unnoticed), the current program, if any, is an
\* object of the current context, not one a loss invalidated; and a frame
\* rendered then activates no invalidated program.
C34_ProgramOfCurrentContext ==
    (gl /\ ~contextLost /\ ~ctxLost) =>
        /\ program # NoHandle => handles[program].state = "live"
        /\ lastOp.op \in {"render", "tick"} =>
              \A i \in 1..Len(gpuLog) :
                  gpuLog[i][1] = "useProgram" => handles[gpuLog[i][2]].state = "live"

\* C37: in every state of the queue and for every request id, code and
\* name, the tool submit_shader and POST /api/submit both accept or both
\* reject (what they do when they accept is the same assignment and the
\* same notification).
C37_SubmitPathsAgree ==
    \A id \in SubmitIds, in \in Submits :
        ToolAccepts(id, in.code, in.name) <=> HttpAccepts(id, in.code, in.name)

(***************************************************************************)
(* The specification of the diagnostics: compile calls on every source,    *)
(* one of which ("W") a driver rejects with a log of white space only,     *)
(* under each fault of the host, before init, after destroy and around a   *)
(* loss of the context.                                                    *)
(***************************************************************************)
NextDiagnostics ==
    \/ InitEngine
    \/ \E in \in CompileInputs \cup {<<"W", "none">>} : Compile(in[1], in[2])
    \/ Destroy
    \/ DeviceLoss
    \/ ContextLostEvent
    \/ ContextRestoredEvent("none")

SpecDiagnostics == Init /\ [][NextDiagnostics]_vars

\* C38: a compile call answers success exactly when it answers no
\* diagnostic: every failed compile carries one diagnostic at least.
C38_FailureHasDiagnostics ==
    lastOp.op = "compile" => (lastOp.success <=> lastOp.errors = <<>>)

(***************************************************************************)
(* The shader store as it holds its state: a list of shaders, in which an  *)
(* id may occur more than once, and the active id.  A shader is its id and *)
(* its code; a partial is a record of the fields it carries.  The          *)
(* specifications of the canvas use the store through the codes of its     *)
(* ids.                                                                    *)
(***************************************************************************)
MaxListed == 3

\* The shaders the callers add and the partials they update with.
AddedShaders == {[id |-> i, code |-> "A"] : i \in ShaderIds}
Partials == {[code |-> "B"]} \cup {[id |-> i] : i \in ShaderIds}

\* `[...state.shaders, shader]`
AddedTo(s, shader) == [s EXCEPT !.shaders = Append(@, shader)]

\* `{ ...s, ...partial }`
Merged(shader, partial) ==
    [f \in DOMAIN shader |-> IF f \in DOMAIN partial THEN partial[f] ELSE shader[f]]

\* updateShader(id, partial)
Updated(s, id, partial) ==
    [s EXCEPT !.shaders = [k \in 1..Len(s.shaders) |->
                              IF s.shaders[k].id = id
                              THEN Merged(s.shaders[k], partial)
                              ELSE s.shaders[k]],
              !.rewritten = @ \/ "id" \in DOMAIN partial]

\* A deleteShader that leaves the active id as it is.
Deleted_KeepsActive(s, id) ==
    [s EXCEPT !.shaders = SelectSeq(s.shaders, LAMBDA x : x.id # id)]

\* deleteShader(id)
Deleted(s, id) ==
    [s EXCEPT !.shaders = SelectSeq(s.shaders, LAMBDA x : x.id # id),
              !.activeShaderId = IF @ = id THEN NoShader ELSE @]

\* setActive(id)
ActiveSet(s, id) == [s EXCEPT !.activeShaderId = id]

\* `state.shaders.find((s) => s.id === id)`: the position of the first.
FoundAt(list, id) ==
    IF id \in ListedIds(list)
    THEN CHOOSE k \in 1..Len(list) :
            list[k].id = id /\ \A j \in 1..(k - 1) : list[j].id # id
    ELSE 0

\* duplicateShader(id), fresh being what generateId() returns.
Duplicated(s, id, fresh) ==
    IF FoundAt(s.shaders, id) = 0 THEN s
    ELSE AddedTo(s, [s.shaders[FoundAt(s.shaders, id)] EXCEPT !.id = fresh])

\* A call of the store returned.
StoreStep(name, arg, s) ==
    /\ store' = s
    /\ UNCHANGED <<engineVars, hostVars, capture, bridgeVars, appVars, dialog>>
    /\ UNCHANGED <<lifecycle, gpuLog, lastGoodSource, everLost, relTwice, relStale,
                   atLoss>>
    /\ lastOp' = Op(name, arg, TRUE, <<>>)

StoreAdd(shader) ==
    /\ Len(store.shaders) < MaxListed
    /\ StoreStep("addShader", <<shader.id, shader>>, AddedTo(store, shader))

StoreUpdate(id, partial) ==
    /\ id \in ShaderIds
    /\ StoreStep("updateShader", <<id, partial>>, Updated(store, id, partial))

StoreDelete(id) ==
    /\ id \in ShaderIds
    /\ StoreStep("deleteShader", <<id, store>>, Deleted(store, id))

\* setActive, given the id of a shader of the list as the cards do.
StoreSetActive(id) ==
    /\ id \in ListedIds(store.shaders)
    /\ StoreStep("setActive", <<id, store>>, ActiveSet(store, id))

\* duplicateShader: generateId() returns an id that is not in use.
StoreDuplicate(id, fresh) ==
    /\ Len(store.shaders) < MaxListed
    /\ fresh \notin ListedIds(store.shaders) \cup {store.activeShaderId}
    /\ StoreStep("duplicateShader", <<id, store>>, Duplicated(store, id, fresh))

NextStore ==
    \/ \E shader \in AddedShaders : StoreAdd(shader)
    \/ \E id \in ShaderIds, partial \in Partials : StoreUpdate(id, partial)
    \/ \E id \in ShaderIds : StoreDelete(id)
    \/ \E id \in ShaderIds : StoreSetActive(id)
    \/ \E id \in ShaderIds \cup {MaxShaders + 1}, fresh \in ShaderIds :
            StoreDuplicate(id, fresh)

SpecStore == Init /\ [][NextStore]_vars

\* The active id is null or the id of a shader of the list.
ActiveListed == store.activeShaderId \in ListedIds(store.shaders) \cup {NoShader}

\* What deleteShader(id) and duplicateShader(id) do in one step: delete
\* removes the shaders of that id and no other, keeping the order, and
\* clears the active id when it was id; duplicate of an id the list lacks
\* changes nothing.
DeleteAndDuplicateSteps ==
    [][/\ lastOp'.op = "deleteShader" =>
            /\ store'.shaders = SelectSeq(store.shaders, LAMBDA x : x.id # lastOp'.arg[1])
            /\ store'.activeShaderId =
                  IF store.activeShaderId = lastOp'.arg[1] THEN NoShader
                  ELSE store.activeShaderId
       /\ (lastOp'.op = "duplicateShader"
           /\ lastOp'.arg[1] \notin ListedIds(store.shaders)) => store' = store
      ]_vars

\* C39 as stated: for any sequence of calls in which setActive is given ids
\* of the list only, the active id is always null or the id of a shader of
\* the list; deleteShader and duplicateShader act as described.
C39_ActiveIdIsListed ==
    /\ []ActiveListed
    /\ DeleteAndDuplicateSteps

\* C39: the same, as long as no updateShader call carried an id in its
\* partial.
C39_ActiveIdIsListedUnlessRewritten ==
    /\ [](~store.rewritten => ActiveListed)
    /\ DeleteAndDuplicateSteps

\* The active shader was deleted from a list that held it twice, and
\* another shader is left.
C39_Witness ==
    /\ lastOp.op = "deleteShader"
    /\ ~store.rewritten
    /\ lastOp.arg[2].activeShaderId = lastOp.arg[1]
    /\ Cardinality({k \in 1..Len(lastOp.arg[2].shaders) :
                       lastOp.arg[2].shaders[k].id = lastOp.arg[1]}) = 2
    /\ store.activeShaderId = NoShader
    /\ store.shaders # <<>>

=============================================================================
